---- MODULE Spec2Model ----
(***************************************************************************)
(* Verification model of the FSRS merge advisor: the distance engine       *)
(* (fsrs_merge_advisor/distance.py) and the profile analyzer               *)
(* (fsrs_merge_advisor/analyzer.py).                                       *)
(*                                                                         *)
(* Number representation.  Python floats are modelled as fixed-point       *)
(* integers counting hundredths: the weight 1.0 is 100, the distance 3.8   *)
(* is 380.  math.log is the table Ln (rounded to hundredths) and math.sqrt *)
(* is the integer square root ISqrt; both are monotone, as the float       *)
(* functions are.  Entries of an inverse-covariance matrix are plain       *)
(* integers, so that a quadratic form over hundredths is in units of       *)
(* 1/10000 and its square root is in hundredths again.                     *)
(*                                                                         *)
(* Optional values: None is the empty tuple, a present value x is <<x>>.   *)
(* Strings are tuples of character codes ("B" is <<66>>).                  *)
(* A call that can raise yields [err |-> "none", val |-> v] or             *)
(* [err |-> "ValueError"] / [err |-> "IndexError"].                        *)
(***************************************************************************)
EXTENDS Integers, Sequences, FiniteSets, TLC

VARIABLES
    profiles,   \* the FSRSProfile list the host has collected
    analysis,   \* outcome of analyze_profiles(profiles), or Pending
    pairwise,   \* outcome of pairwise_distance_matrix(profiles), or Pending
    call        \* a direct call of one library function: arguments and outcome

vars == <<profiles, analysis, pairwise, call>>

(***************************************************************************)
(* Bounds of the model.                                                    *)
(***************************************************************************)
MaxProfiles == 3

\* The longest vector of a direct call of the distance functions.
MaxDim == 2

\* The most vectors of a direct call of the covariance functions.
MaxRows == 3

\* The longest weights of a direct call of transform_params_for_distance.
MaxWeights == 5

\* The most fields of a configuration record given to extract_fsrs_weights.
MaxKeys == 2

\* The longest row given to similar_items_below_threshold.
MaxItems == 3

\* The most decks selected by _load_computed_deck_profiles.
MaxDecks == 2

(***************************************************************************)
(* Generic helpers.                                                        *)
(***************************************************************************)
None == <<>>

Some(x) == <<x>>

Raise(kind) == [err |-> kind]

Return(v) == [err |-> "none", val |-> v]

Abs(x) == IF x < 0 THEN -x ELSE x

\* A list comprehension [e for i in range(n)] as a concrete tuple.
List(f) == SubSeq(f, 1, Len(f))

RECURSIVE SumSeq(_, _)
SumSeq(s, n) == IF n = 0 THEN 0 ELSE SumSeq(s, n - 1) + s[n]

RECURSIVE ISqrtBetween(_, _, _)
ISqrtBetween(lo, hi, q) ==
    IF lo >= hi THEN lo
    ELSE LET mid == (lo + hi + 1) \div 2
         IN  IF mid * mid <= q THEN ISqrtBetween(mid, hi, q)
                               ELSE ISqrtBetween(lo, mid - 1, q)

\* The integer square root of q >= 0.
ISqrt(q) == ISqrtBetween(0, 46340, q)

\* math.sqrt: a "math domain error" ValueError on a negative argument.
MathSqrt(q) == IF q < 0 THEN Raise("ValueError") ELSE Return(ISqrt(q))

Max(a, b) == IF a > b THEN a ELSE b

\* math.log on a value in hundredths, result in hundredths (rounded).
Ln(v) ==
    CASE v = 50  -> -69
      [] v = 100 -> 0
      [] v = 200 -> 69
      [] v = 272 -> 100
      [] v = 300 -> 110
      [] v = 1000 -> 230

\* str.lower on one character code.
LowerChar(c) == IF c >= 65 /\ c <= 90 THEN c + 32 ELSE c

\* str.lower
Lower(s) == [i \in 1..Len(s) |-> LowerChar(s[i])]

\* Python's string comparison a < b (lexicographic on character codes).
RECURSIVE StrLess(_, _)
StrLess(a, b) ==
    IF b = <<>> THEN FALSE
    ELSE IF a = <<>> THEN TRUE
    ELSE IF a[1] # b[1] THEN a[1] < b[1]
    ELSE StrLess(Tail(a), Tail(b))

\* Insert index i into the index list `order` after every index whose key is
\* not greater (a stable insertion: equal keys keep their input order).
RECURSIVE InsertByKey(_, _, _)
InsertByKey(order, i, keys) ==
    IF order = <<>> THEN <<i>>
    ELSE IF StrLess(keys[i], keys[order[Len(order)]])
         THEN Append(InsertByKey(SubSeq(order, 1, Len(order) - 1), i, keys),
                     order[Len(order)])
         ELSE Append(order, i)

\* sorted(seq, key=...): the permutation of 1..n that Python's stable sort
\* produces for the given keys.
RECURSIVE SortedOrder(_, _)
SortedOrder(keys, n) ==
    IF n = 0 THEN <<>> ELSE InsertByKey(SortedOrder(keys, n - 1), n, keys)

(***************************************************************************)
(* reference_covariance.py: the canonical dimension, the shared-preset     *)
(* threshold (3.8, in hundredths) and the reference inverse covariance.    *)
(***************************************************************************)
FSRS6_RECENCY_DIM == 21

FSRS6_RECENCY_MAHALANOBIS_SHARED_PRESET_THRESHOLD == 380

FSRS6_RECENCY_INV_COVARIANCE_21 ==
    List([i \in 1..FSRS6_RECENCY_DIM |->
        List([j \in 1..FSRS6_RECENCY_DIM |->
            IF i = j THEN 2 ELSE IF Abs(i - j) = 1 THEN -1 ELSE 0])])

(***************************************************************************)
(* distance.py                                                             *)
(***************************************************************************)
\* The entries of a matrix under inversion are exact rationals <<n, d>> in
\* lowest terms with d > 0 (the float arithmetic without its rounding).
RECURSIVE Gcd(_, _)
Gcd(a, b) == IF b = 0 THEN a ELSE Gcd(b, a % b)

Rat(n, d) ==
    LET g == Gcd(Abs(n), Abs(d))
        sign == IF d < 0 THEN -1 ELSE 1
    IN  <<(sign * n) \div g, (sign * d) \div g>>

FromInt(x) == <<x, 1>>

RMul(a, b) == Rat(a[1] * b[1], a[2] * b[2])

RSub(a, b) == Rat(a[1] * b[2] - b[1] * a[2], a[2] * b[2])

\* 1.0 / a
RInv(a) == Rat(a[2], a[1])

\* abs(a) > abs(b)
RAbsGreater(a, b) == Abs(a[1]) * b[2] > Abs(b[1]) * a[2]

\* abs(x) < 1e-15: of the rationals of this model, only 0 is that small.
BelowTolerance(x) == x[1] = 0

_identity(size) ==
    List([i \in 1..size |->
        List([j \in 1..size |-> IF i = j THEN FromInt(1) ELSE FromInt(0)])])

\* max(range(col, n), key=lambda r: abs(augmented[r][col])): the first row
\* of col..n whose entry in column col is of maximal absolute value.
PivotRow(augmented, col, n) ==
    CHOOSE r \in col..n :
        /\ \A q \in col..n : ~RAbsGreater(augmented[q][col], augmented[r][col])
        /\ \A q \in col..(r - 1) : RAbsGreater(augmented[r][col], augmented[q][col])

\* The elimination loop (lines 34-41) of column col over rows 1..upto: the
\* augmented matrix so far, or IndexError at a row shorter than 2n.
RECURSIVE Eliminate(_, _, _, _)
Eliminate(augmented, col, n, upto) ==
    IF upto = 0 THEN Return(augmented)
    ELSE LET prev == Eliminate(augmented, col, n, upto - 1) IN
         IF prev.err # "none" THEN prev
         ELSE IF upto = col THEN prev
         ELSE LET factor == prev.val[upto][col] IN
              IF BelowTolerance(factor) THEN prev
              ELSE IF Len(prev.val[upto]) < 2 * n THEN Raise("IndexError")
              ELSE Return([prev.val EXCEPT ![upto] =
                      List([j \in 1..Len(prev.val[upto]) |->
                          IF j <= 2 * n
                          THEN RSub(prev.val[upto][j], RMul(factor, prev.val[col][j]))
                          ELSE prev.val[upto][j]])])

\* One iteration of the column loop (lines 20-41).
EliminateColumn(augmented, col, n) ==
    LET pivot_row == PivotRow(augmented, col, n) IN
    IF BelowTolerance(augmented[pivot_row][col])
    THEN Raise("ValueError")     \* "Matrix is singular"
    ELSE LET swapped == [augmented EXCEPT ![col] = augmented[pivot_row],
                                          ![pivot_row] = augmented[col]]
         IN
         IF Len(swapped[col]) < 2 * n THEN Raise("IndexError")
         ELSE LET scale == RInv(swapped[col][col])
                  scaled == [swapped EXCEPT ![col] =
                                List([j \in 1..Len(swapped[col]) |->
                                    IF j <= 2 * n THEN RMul(swapped[col][j], scale)
                                                  ELSE swapped[col][j]])]
              IN  Eliminate(scaled, col, n, n)

\* The column loop over columns 1..upto.
RECURSIVE EliminateColumns(_, _, _)
EliminateColumns(augmented, n, upto) ==
    IF upto = 0 THEN Return(augmented)
    ELSE LET prev == EliminateColumns(augmented, n, upto - 1) IN
         IF prev.err # "none" THEN prev
         ELSE EliminateColumn(prev.val, upto, n)

\* The matrix argument has integer entries.
_invert_matrix(matrix) ==
    LET n == Len(matrix) IN
    IF n = 0 THEN Raise("ValueError")     \* "Cannot invert an empty matrix"
    ELSE LET ident == _identity(n)
             augmented ==
                 List([i \in 1..n |->
                     List([j \in 1..Len(matrix[i]) |-> FromInt(matrix[i][j])]) \o ident[i]])
             done == EliminateColumns(augmented, n, n)
         IN
         IF done.err # "none" THEN done
         ELSE Return(List([i \in 1..n |->
                  SubSeq(done.val[i], n + 1, Len(done.val[i]))]))

\* _invert_matrix on a matrix whose entries are exact rationals already (the
\* covariance matrices below).
_invert_matrix_of(matrix) ==
    LET n == Len(matrix) IN
    IF n = 0 THEN Raise("ValueError")     \* "Cannot invert an empty matrix"
    ELSE LET ident == _identity(n)
             augmented == List([i \in 1..n |-> List(matrix[i]) \o ident[i]])
             done == EliminateColumns(augmented, n, n)
         IN
         IF done.err # "none" THEN done
         ELSE Return(List([i \in 1..n |->
                  SubSeq(done.val[i], n + 1, Len(done.val[i]))]))

RAdd(a, b) == Rat(a[1] * b[2] + b[1] * a[2], a[2] * b[2])

\* a / b, for b not zero
RDiv(a, b) == RMul(a, RInv(b))

\* sum(...) of a list of rationals
RECURSIVE RSumSeq(_, _)
RSumSeq(s, n) == IF n = 0 THEN FromInt(0) ELSE RAdd(RSumSeq(s, n - 1), s[n])

\* The branch of two or more rows of covariance_matrix (lines 60-71): the
\* means, the sums of products of centered entries, the division by n - 1.
\* The rows have integer entries.
SampleCovariance(rows, dim) ==
    LET n == Len(rows)
        means == List([i \in 1..dim |->
                     Rat(SumSeq([r \in 1..n |-> rows[r][i]], n), n)])
        centered == List([r \in 1..n |->
                        List([i \in 1..dim |-> RSub(FromInt(rows[r][i]), means[i])])])
        denom == FromInt(n - 1)
    IN  List([i \in 1..dim |->
            List([j \in 1..dim |->
                RDiv(RSumSeq([r \in 1..n |-> RMul(centered[r][i], centered[r][j])], n),
                     denom)])])

\* Mutant: the regularization is added to every entry of the matrix.
Regularize_everywhere(cov, dim, regularization) ==
    List([i \in 1..dim |->
        List([j \in 1..dim |-> RAdd(cov[i][j], regularization)])])

\* for i in range(dim): cov[i][i] += regularization
Regularize(cov, dim, regularization) ==
    List([i \in 1..dim |->
        List([j \in 1..dim |->
            IF i = j THEN RAdd(cov[i][j], regularization) ELSE cov[i][j]])])

\* The rows have integer entries, the regularization is a rational; the
\* result is a matrix of rationals.
covariance_matrix(rows, regularization) ==
    IF rows = <<>> THEN Raise("ValueError")   \* "... covariance of empty data"
    ELSE LET dim == Len(rows[1]) IN
         IF dim = 0 THEN Raise("ValueError")  \* "... of zero-length vectors"
         ELSE IF \E r \in 1..Len(rows) : Len(rows[r]) # dim
              THEN Raise("ValueError")        \* "... must have the same length"
              ELSE LET cov == IF Len(rows) < 2 THEN _identity(dim)
                                               ELSE SampleCovariance(rows, dim)
                   IN  Return(Regularize(cov, dim, regularization))

inverse_covariance(rows, regularization) ==
    LET cov == covariance_matrix(rows, regularization) IN
    IF cov.err # "none" THEN cov ELSE _invert_matrix_of(cov.val)

\* Mutant: the reference rows themselves are returned, not copies of them.
CopyRows_shared(reference) ==
    [err |-> "none", val |-> reference, aliases |-> 1..Len(reference)]

\* [list(row) for row in FSRS6_RECENCY_INV_COVARIANCE_21]: a new list of new
\* rows.  `aliases` is the set of the rows of the returned matrix that are the
\* same list objects as the rows of the reference: none.
CopyRows(reference) ==
    [err |-> "none", val |-> List([i \in 1..Len(reference) |-> List(reference[i])]),
     aliases |-> {}]

\* `reference` is the module-level list FSRS6_RECENCY_INV_COVARIANCE_21 as it
\* stands when the call is made.  In the canonical dimension the result holds
\* the integer entries of the reference, in any other the rationals of
\* _invert_matrix.
inverse_covariance_for_vectors(rows, regularization, reference) ==
    IF rows = <<>> THEN Raise("ValueError")   \* "... of empty data"
    ELSE LET dim == Len(rows[1]) IN
         IF \E r \in 1..Len(rows) : Len(rows[r]) # dim
         THEN Raise("ValueError")             \* "... must have the same length"
         ELSE IF dim = FSRS6_RECENCY_DIM
              THEN CopyRows(reference)
              ELSE LET inv == inverse_covariance(rows, regularization) IN
                   IF inv.err # "none" THEN inv
                   ELSE [err |-> "none", val |-> inv.val, aliases |-> {}]

\* The strict selection of the inverse covariance: the reference matrix for
\* canonical vectors, a failure for any other dimensionality.
get_validated_fsrs6_inverse_covariance(rows) ==
    IF rows = <<>> THEN Raise("ValueError")
    ELSE IF \E i \in 1..Len(rows) : Len(rows[i]) # FSRS6_RECENCY_DIM
         THEN Raise("InvalidParams")
         ELSE Return(FSRS6_RECENCY_INV_COVARIANCE_21)

\* Mutant: the quadratic form is not clamped at 0 before the square root.
mahalanobis_distance_unclamped(left, right, inv_covariance) ==
    IF Len(left) # Len(right) THEN Raise("ValueError")
    ELSE LET dim == Len(left) IN
         IF \E r \in 1..Len(inv_covariance) : Len(inv_covariance[r]) # dim
         THEN Raise("ValueError")
         ELSE IF Len(inv_covariance) < dim
              THEN Raise("IndexError")
              ELSE LET delta == List([i \in 1..dim |-> left[i] - right[i]])
                       transformed ==
                           List([i \in 1..dim |->
                               SumSeq([j \in 1..dim |-> inv_covariance[i][j] * delta[j]], dim)])
                       squared ==
                           SumSeq([i \in 1..dim |-> delta[i] * transformed[i]], dim)
                   IN  MathSqrt(squared)

mahalanobis_distance(left, right, inv_covariance) ==
    IF Len(left) # Len(right) THEN Raise("ValueError")
    ELSE LET dim == Len(left) IN
         IF \E r \in 1..Len(inv_covariance) : Len(inv_covariance[r]) # dim
         THEN Raise("ValueError")
         ELSE IF Len(inv_covariance) < dim
              THEN Raise("IndexError")   \* inv_covariance[i] past the last row
              ELSE LET delta == List([i \in 1..dim |-> left[i] - right[i]])
                       transformed ==
                           List([i \in 1..dim |->
                               SumSeq([j \in 1..dim |-> inv_covariance[i][j] * delta[j]], dim)])
                       squared ==
                           SumSeq([i \in 1..dim |-> delta[i] * transformed[i]], dim)
                   IN  MathSqrt(Max(squared, 0))

(***************************************************************************)
(* analyzer.py                                                             *)
(***************************************************************************)
LOG_FIRST_PARAM_COUNT == 4

\* "Not FSRS6 valid params"
NOT_FSRS6_VALID_PARAMS_MESSAGE == "Not FSRS6 valid params"

FSRSProfile(id, name, weights) ==
    [profile_id |-> id, profile_name |-> name, weights |-> weights]

DistanceResult(profile, nearest_name, nearest_distance, share, status) ==
    [profile |-> profile,
     nearest_profile_name |-> nearest_name,
     nearest_distance |-> nearest_distance,
     should_share_preset |-> share,
     status_message |-> status]

Min(a, b) == IF a < b THEN a ELSE b

(***************************************************************************)
(* Configuration records.  A value is [kind |-> "NoneType"], a string      *)
(* [kind |-> "str"], a list [kind |-> "list", items |-> <<entry, ...>>] or *)
(* a mapping [kind |-> "mapping", fields |-> [name |-> value]].  An entry  *)
(* of a list is [type |-> t, v |-> x]: an int x, a str holding the text x  *)
(* (given by its number in FloatOfStr's table), None, or an int beyond the *)
(* range of a float (such as 10**400).                                     *)
(***************************************************************************)
NoneValue == [kind |-> "NoneType"]

StrValue == [kind |-> "str"]

ListValue(items) == [kind |-> "list", items |-> items]

MappingValue(fields) == [kind |-> "mapping", fields |-> fields]

IntEntry(n) == [type |-> "int", v |-> n]

\* The strings of the model: text 1 is "2.5", text 2 is "x".
StrEntry(text) == [type |-> "str", v |-> text]

NoneEntry == [type |-> "NoneType", v |-> 0]

HugeIntEntry == [type |-> "int beyond float range", v |-> 0]

\* float(str): the number the text spells, in hundredths, or ValueError.
FloatOfStr(text) ==
    IF text = 1 THEN Return(250) ELSE Raise("ValueError")

\* float(v), in hundredths.
Float(entry) ==
    CASE entry.type = "int" -> Return(entry.v * 100)
      [] entry.type = "str" -> FloatOfStr(entry.v)
      [] entry.type = "NoneType" -> Raise("TypeError")
      [] entry.type = "int beyond float range" -> Raise("OverflowError")

\* tuple(float(v) for v in values) stops at the first entry whose conversion
\* raises; TypeError and ValueError are caught, any other error propagates.
_to_float_tuple(values) ==
    LET conv == List([i \in 1..Len(values) |-> Float(values[i])]) IN
    IF \E i \in 1..Len(values) : conv[i].err # "none"
    THEN LET first == CHOOSE i \in 1..Len(values) :
                          /\ conv[i].err # "none"
                          /\ \A k \in 1..(i - 1) : conv[k].err = "none"
         IN  IF conv[first].err \in {"TypeError", "ValueError"}
             THEN Return(None)
             ELSE Raise(conv[first].err)
    ELSE LET converted == List([i \in 1..Len(values) |-> conv[i].val]) IN
         Return(IF converted # <<>> THEN Some(converted) ELSE None)

\* Mapping.get(name), or getattr(obj, name, None) on a value without fields.
_field(obj, name) ==
    IF obj.kind = "mapping" /\ name \in DOMAIN obj.fields
    THEN obj.fields[name]
    ELSE NoneValue

\* isinstance(value, Sequence) and not isinstance(value, (str, bytes, bytearray))
IsNonStringSequence(value) == value.kind = "list"

FlatNames ==
    << "fsrsParams6", "fsrs_params6", "fsrsParams5", "fsrs_params5",
       "fsrsParams", "fsrs_params", "fsrsWeights", "fsrs_weights" >>

NestedNames == << "weights", "params", "parameters" >>

_iter_candidate_sequences(config) ==
    LET flat == SelectSeq([i \in 1..Len(FlatNames) |-> _field(config, FlatNames[i])],
                          IsNonStringSequence)
        fsrs_obj == _field(config, "fsrs")
        nested ==
            IF fsrs_obj # NoneValue
            THEN SelectSeq([i \in 1..Len(NestedNames) |-> _field(fsrs_obj, NestedNames[i])],
                           IsNonStringSequence)
            ELSE <<>>
    IN  flat \o nested

\* not config: None and the empty mapping are false.
Falsy(config) ==
    \/ config.kind = "NoneType"
    \/ config.kind = "mapping" /\ DOMAIN config.fields = {}

\* The loop of extract_fsrs_weights over candidates[from..]: the first
\* converted tuple, the error of a conversion, or None after the last one.
RECURSIVE FirstConverted(_, _)
FirstConverted(candidates, from) ==
    IF from > Len(candidates) THEN Return(None)
    ELSE LET converted == _to_float_tuple(candidates[from].items) IN
         IF converted.err # "none" THEN converted
         ELSE IF converted.val # None THEN converted
         ELSE FirstConverted(candidates, from + 1)

extract_fsrs_weights(config) ==
    IF Falsy(config) THEN Return(None)
    ELSE FirstConverted(_iter_candidate_sequences(config), 1)

\* Mutant: every entry must be strictly positive, not the leading ones only.
transform_params_for_distance_all_positive(weights, log_first_count) ==
    LET n == Min(log_first_count, Len(weights)) IN
    IF \E idx \in 1..Len(weights) : weights[idx] <= 0
    THEN Raise("ValueError")
    ELSE Return(List([idx \in 1..Len(weights) |->
                    IF idx <= n THEN Ln(weights[idx]) ELSE weights[idx]]))

transform_params_for_distance(weights, log_first_count) ==
    LET n == Min(log_first_count, Len(weights)) IN
    IF \E idx \in 1..n : weights[idx] <= 0
    THEN Raise("ValueError")   \* "... strictly positive first FSRS params"
    ELSE Return(List([idx \in 1..Len(weights) |->
                    IF idx <= n THEN Ln(weights[idx]) ELSE weights[idx]]))

\* Mutant: the validity test accepts every length up to the canonical one.
is_fsrs6_valid_params_upto(weights) == Len(weights) <= FSRS6_RECENCY_DIM

is_fsrs6_valid_params(weights) == Len(weights) = FSRS6_RECENCY_DIM

\* Mutant: a distance equal to the threshold is recommended too.
recommend_shared_preset_inclusive(parameter_count, nearest_distance) ==
    IF nearest_distance = None THEN None
    ELSE IF parameter_count # FSRS6_RECENCY_DIM THEN None
    ELSE Some(nearest_distance[1] <= FSRS6_RECENCY_MAHALANOBIS_SHARED_PRESET_THRESHOLD)

recommend_shared_preset(parameter_count, nearest_distance) ==
    IF nearest_distance = None THEN None
    ELSE IF parameter_count # FSRS6_RECENCY_DIM THEN None
    ELSE Some(nearest_distance[1] < FSRS6_RECENCY_MAHALANOBIS_SHARED_PRESET_THRESHOLD)

(***************************************************************************)
(* deck_tools.py                                                           *)
(***************************************************************************)
\* Mutant: a value equal to the threshold is kept too.
BelowThreshold_inclusive(value, threshold) == value <= threshold

\* value < threshold
BelowThreshold(value, threshold) == value < threshold

\* The loop of lines 64-68 over the first n entries of distances_row: the
\* (name, value) pairs appended so far.  The index idx of the code is i - 1.
RECURSIVE CollectPairs(_, _, _, _, _)
CollectPairs(names, distances_row, self_index, threshold, n) ==
    IF n = 0 THEN <<>>
    ELSE LET pairs == CollectPairs(names, distances_row, self_index, threshold, n - 1)
             idx   == n - 1
             value == distances_row[n]
         IN  IF idx = self_index \/ value = None THEN pairs
             ELSE IF BelowThreshold(value[1], threshold)
                  THEN Append(pairs, [name |-> names[n], distance |-> value[1]])
                  ELSE pairs

\* (a[1], a[0].lower()) < (b[1], b[0].lower())
PairKeyLess(a, b) ==
    \/ a.distance < b.distance
    \/ a.distance = b.distance /\ StrLess(Lower(a.name), Lower(b.name))

\* Insert the pair into the sorted list after every pair whose key is not
\* greater (list.sort is stable).
RECURSIVE InsertPair(_, _)
InsertPair(sorted, pair) ==
    IF sorted = <<>> THEN <<pair>>
    ELSE IF PairKeyLess(pair, sorted[Len(sorted)])
         THEN Append(InsertPair(SubSeq(sorted, 1, Len(sorted) - 1), pair),
                     sorted[Len(sorted)])
         ELSE Append(sorted, pair)

\* pairs.sort(key=lambda item: (item[1], item[0].lower()))
RECURSIVE SortPairs(_, _)
SortPairs(pairs, n) ==
    IF n = 0 THEN <<>> ELSE InsertPair(SortPairs(pairs, n - 1), pairs[n])

\* f"{name} ({distance:.4f})": the name and the digits of the distance with
\* four decimals (a distance in hundredths, shown in ten-thousandths).
FormatItem(name, distance) == [name |-> name, digits |-> distance * 100]

similar_items_below_threshold(names, distances_row, self_index, threshold) ==
    LET pairs  == CollectPairs(names, distances_row, self_index, threshold,
                               Len(distances_row))
        sorted == SortPairs(pairs, Len(pairs))
    IN  List([k \in 1..Len(sorted) |-> FormatItem(sorted[k].name, sorted[k].distance)])

(***************************************************************************)
(* The inputs the model draws from.                                        *)
(***************************************************************************)
\* A weight vector of the given length whose first four entries are `lead`
\* and whose other entries are `rest` (hundredths).
Vec(len, lead, rest) == List([i \in 1..len |-> IF i <= 4 THEN lead ELSE rest])

WeightList ==
    << Vec(21, 100, 100),    \* canonical
       Vec(21, 200, 100),    \* canonical, at distance 0.97 of the first
       Vec(21, 50, 100),     \* canonical, at distance 0.97 on the other side
       Vec(21, 200, 397),    \* canonical, at distance 3.80 of the first
       Vec(21, 0, 100),      \* canonical length, leading zeros
       Vec(20, 100, 100) >>  \* not canonical

WeightChoices == { WeightList[i] : i \in 1..Len(WeightList) }

\* "Ba", "B", "b": "B" and "b" have the same key, and "Ba" sorts before "b"
\* as written but after it in lower case.
NameChoices == { <<66, 97>>, <<66>>, <<98>> }

CountChoices == { 20, 21, 22 }

\* Every tuple over S of length 0..n.
TuplesUpTo(S, n) == UNION { [1..k -> S] : k \in 0..n }

\* The vectors of the direct calls of mahalanobis_distance.
VectorChoices == TuplesUpTo({0, 3}, MaxDim)

\* A matrix of `rows` rows of `width` entries, d on the diagonal, u above it
\* and l below it, whose row `odd` (if any) has `oddwidth` entries instead.
Mat(rows, width, odd, oddwidth, d, u, l) ==
    List([i \in 1..rows |->
        List([j \in 1..(IF i = odd THEN oddwidth ELSE width) |->
            IF i = j THEN d ELSE IF i < j THEN u ELSE l])])

\* Square and not square, ragged, symmetric and not, definite and not,
\* singular and not.
MatrixChoices ==
    { Mat(rows, width, odd, oddwidth, d, u, l) :
        rows \in 0..(MaxDim + 1), width \in 0..(MaxDim + 1),
        odd \in 0..(MaxDim + 1), oddwidth \in 0..(MaxDim + 1),
        d \in {-1, 2}, u \in {0, 1}, l \in {-1, 1} }

DistanceChoices == { None, Some(0), Some(379), Some(380), Some(381) }

\* The values of the fields of a configuration record: a string, lists that
\* convert ([1], ["2.5", 3]) and lists that do not ([], [1, "x"], [None, 1],
\* [1, 10**400]).
FieldValueChoices ==
    { StrValue,
      ListValue(<<>>),
      ListValue(<<IntEntry(1)>>),
      ListValue(<<StrEntry(1), IntEntry(3)>>),
      ListValue(<<IntEntry(1), StrEntry(2)>>),
      ListValue(<<NoneEntry, IntEntry(1)>>),
      ListValue(<<IntEntry(1), HugeIntEntry>>) }

\* The places of a configuration record that hold a value: the FSRS-specific
\* top-level names, the generic top-level "weights", and the names under
\* "fsrs" (the three the code reads and one it does not).
PathChoices ==
    { <<FlatNames[i]>> : i \in 1..Len(FlatNames) }
        \cup { <<"weights">> }
        \cup { <<"fsrs", NestedNames[i]>> : i \in 1..Len(NestedNames) }
        \cup { <<"fsrs", "fsrsParams6">> }

\* The configuration record that holds the value at[p] at each path p.
ConfigOf(at) ==
    LET top == { p[1] : p \in DOMAIN at }
        nested == { p[2] : p \in { q \in DOMAIN at : Len(q) = 2 } }
    IN  MappingValue(
            [n \in top |->
                IF n = "fsrs"
                THEN MappingValue([m \in nested |-> at[<<"fsrs", m>>]])
                ELSE at[<<n>>]])

\* None, "fsrs" that is not a record, and the records of up to MaxKeys values.
ConfigChoices ==
    { NoneValue, MappingValue([n \in {"fsrs"} |-> StrValue]) }
        \cup { ConfigOf(at) :
                 at \in UNION { [P -> FieldValueChoices] :
                                  P \in { Q \in SUBSET PathChoices :
                                            Cardinality(Q) <= MaxKeys } } }

\* The arguments of the direct calls of similar_items_below_threshold: as
\* many names as the row has cells, cells None, 0.0, 2.5 and 3.8, and the
\* thresholds 3.8 and 2.51.
RowCellChoices == { None, Some(0), Some(250), Some(380) }

ThresholdChoices == { FSRS6_RECENCY_MAHALANOBIS_SHARED_PRESET_THRESHOLD, 251 }

\* The deck names "a", "B", "Ba" and "c" (deck names are unique).
DeckNameChoices == { <<97>>, <<66>>, <<66, 97>>, <<99>> }

\* selected_entries: up to MaxDecks (deck_id, deck_name) pairs in ascending
\* order of lower-cased name; the deck id is the rank of the deck.
SelectedEntriesChoices ==
    { entries \in UNION { [1..n -> [deck_id : 1..MaxDecks, deck_name : DeckNameChoices]] :
                            n \in 0..MaxDecks } :
        /\ \A i \in 1..Len(entries) : entries[i].deck_id = i
        /\ \A i, j \in 1..Len(entries) :
              i < j => StrLess(Lower(entries[i].deck_name), Lower(entries[j].deck_name)) }

\* What _compute_fsrs_params_for_deck does for a deck: it raises, or it
\* returns (params, fsrs_items).
ComputeOutcomeChoices ==
    { [raised |-> TRUE,  params |-> <<>>, fsrs_items |-> 0],
      [raised |-> FALSE, params |-> Vec(21, 100, 100), fsrs_items |-> 5],
      [raised |-> FALSE, params |-> Vec(21, 100, 100), fsrs_items |-> 0],
      [raised |-> FALSE, params |-> Vec(20, 100, 100), fsrs_items |-> 5],
      [raised |-> FALSE, params |-> <<>>, fsrs_items |-> 0] }

\* The arguments of the direct calls of transform_params_for_distance:
\* weights -2.0, 0.0, 0.5 and e, and counts around the default of 4.
TransformWeightsChoices == TuplesUpTo({-200, 0, 50, 272}, MaxWeights)

LogFirstCountChoices == { -1, 0, 2, LOG_FIRST_PARAM_COUNT, 6 }

\* The samples of the direct calls of the covariance functions: up to MaxRows
\* vectors, of equal lengths or not.
RowsChoices == TuplesUpTo(VectorChoices, MaxRows)

\* The same, with vectors of the canonical dimension among them.
CanonicalRowsChoices ==
    TuplesUpTo(VectorChoices \cup {Vec(21, 100, 100), Vec(21, 0, 397)}, MaxRows)

\* regularization: 0, 0.5 and -1 (which makes the covariance of a single
\* vector the zero matrix).
RegularizationChoices == { <<0, 1>>, <<1, 2>>, <<-1, 1>> }

(***************************************************************************)
(* Evaluation table.  The analyzer calls mahalanobis_distance on the       *)
(* transformed weight choices with the reference matrix, over and over;    *)
(* the table below holds mahalanobis_distance of each such pair, so that   *)
(* it is evaluated once instead of once per state.  A call with any other  *)
(* argument is computed directly.                                          *)
(***************************************************************************)
TransformedChoices ==
    LET ok == SelectSeq(WeightList,
                  LAMBDA w : /\ is_fsrs6_valid_params(w)
                             /\ transform_params_for_distance(w, LOG_FIRST_PARAM_COUNT).err = "none")
    IN  List([i \in 1..Len(ok) |->
                transform_params_for_distance(ok[i], LOG_FIRST_PARAM_COUNT).val])

ReferenceDistances ==
    List([i \in 1..Len(TransformedChoices) |->
        List([j \in 1..Len(TransformedChoices) |->
            mahalanobis_distance(TransformedChoices[i], TransformedChoices[j],
                                 FSRS6_RECENCY_INV_COVARIANCE_21)])])

ChoiceIndex(v) ==
    IF \E i \in 1..Len(TransformedChoices) : TransformedChoices[i] = v
    THEN CHOOSE i \in 1..Len(TransformedChoices) : TransformedChoices[i] = v
    ELSE 0

\* mahalanobis_distance(left, right, inv_covariance), through the table.
mahalanobis_distance_of(left, right, inv_covariance) ==
    LET a == ChoiceIndex(left)
        b == ChoiceIndex(right)
    IN  IF a > 0 /\ b > 0 /\ inv_covariance = FSRS6_RECENCY_INV_COVARIANCE_21
        THEN ReferenceDistances[a][b]
        ELSE mahalanobis_distance(left, right, inv_covariance)

\* [f(x) for x in seq if Test(x)] building blocks: the subsequence of the
\* indices of seq whose element satisfies / does not satisfy the validity test.
\* Mutant: no profile is filtered out.
ValidOf_all(seq) == seq

ValidOf(seq) == SelectSeq(seq, LAMBDA p : is_fsrs6_valid_params(p.weights))

InvalidOf(seq) == SelectSeq(seq, LAMBDA p : ~is_fsrs6_valid_params(p.weights))

\* Mutant: a vector whose transform raises is taken as it is, without logs.
TransformAll_lenient(valid) ==
    LET tr == List([i \in 1..Len(valid) |->
                  transform_params_for_distance(valid[i].weights, LOG_FIRST_PARAM_COUNT)])
    IN  Return(List([i \in 1..Len(valid) |->
                   IF tr[i].err = "none" THEN tr[i].val ELSE valid[i].weights]))

\* [list(transform_params_for_distance(p.weights)) for p in valid]: the list
\* of transformed vectors, or the error of the first transform that raises.
TransformAll(valid) ==
    LET tr == List([i \in 1..Len(valid) |->
                  transform_params_for_distance(valid[i].weights, LOG_FIRST_PARAM_COUNT)])
    IN  IF \E i \in 1..Len(valid) : tr[i].err # "none"
        THEN Raise(tr[CHOOSE i \in 1..Len(valid) :
                         /\ tr[i].err # "none"
                         /\ \A k \in 1..(i - 1) : tr[k].err = "none"].err)
        ELSE Return(List([i \in 1..Len(valid) |-> tr[i].val]))

\* Mutant: the inner loop skips every other_idx up to idx (the triangular
\* loop of pairwise_distance_matrix) instead of idx alone.
RECURSIVE NearestScan_triangular(_, _, _, _, _)
NearestScan_triangular(idx, upto, valid, vectors, inv_cov) ==
    IF upto = 0
    THEN [err |-> "none", nearest_name |-> None, nearest_distance |-> None]
    ELSE LET prev == NearestScan_triangular(idx, upto - 1, valid, vectors, inv_cov) IN
         IF prev.err # "none" THEN prev
         ELSE IF upto <= idx THEN prev
         ELSE LET d == mahalanobis_distance_of(vectors[idx], vectors[upto], inv_cov) IN
              IF d.err # "none"
              THEN [err |-> d.err, nearest_name |-> None, nearest_distance |-> None]
              ELSE IF prev.nearest_distance = None \/ d.val < prev.nearest_distance[1]
                   THEN [err |-> "none",
                         nearest_name |-> Some(valid[upto].profile_name),
                         nearest_distance |-> Some(d.val)]
                   ELSE prev

\* Mutant: the comparison that replaces the current best is "greater".
RECURSIVE NearestScan_farthest(_, _, _, _, _)
NearestScan_farthest(idx, upto, valid, vectors, inv_cov) ==
    IF upto = 0
    THEN [err |-> "none", nearest_name |-> None, nearest_distance |-> None]
    ELSE LET prev == NearestScan_farthest(idx, upto - 1, valid, vectors, inv_cov) IN
         IF prev.err # "none" THEN prev
         ELSE IF idx = upto THEN prev
         ELSE LET d == mahalanobis_distance_of(vectors[idx], vectors[upto], inv_cov) IN
              IF d.err # "none"
              THEN [err |-> d.err, nearest_name |-> None, nearest_distance |-> None]
              ELSE IF prev.nearest_distance = None \/ d.val > prev.nearest_distance[1]
                   THEN [err |-> "none",
                         nearest_name |-> Some(valid[upto].profile_name),
                         nearest_distance |-> Some(d.val)]
                   ELSE prev

\* Mutant: the comparison that replaces the current best is "not greater",
\* so that the last of several equally near profiles is kept.
RECURSIVE NearestScan_last_seen(_, _, _, _, _)
NearestScan_last_seen(idx, upto, valid, vectors, inv_cov) ==
    IF upto = 0
    THEN [err |-> "none", nearest_name |-> None, nearest_distance |-> None]
    ELSE LET prev == NearestScan_last_seen(idx, upto - 1, valid, vectors, inv_cov) IN
         IF prev.err # "none" THEN prev
         ELSE IF idx = upto THEN prev
         ELSE LET d == mahalanobis_distance_of(vectors[idx], vectors[upto], inv_cov) IN
              IF d.err # "none"
              THEN [err |-> d.err, nearest_name |-> None, nearest_distance |-> None]
              ELSE IF prev.nearest_distance = None \/ d.val <= prev.nearest_distance[1]
                   THEN [err |-> "none",
                         nearest_name |-> Some(valid[upto].profile_name),
                         nearest_distance |-> Some(d.val)]
                   ELSE prev

\* The inner loop of analyze_profiles (lines 173-180) for profile idx, run
\* over other_idx = 1..upto: the nearest name and distance kept so far, or
\* the error raised by mahalanobis_distance.
RECURSIVE NearestScan(_, _, _, _, _)
NearestScan(idx, upto, valid, vectors, inv_cov) ==
    IF upto = 0
    THEN [err |-> "none", nearest_name |-> None, nearest_distance |-> None]
    ELSE LET prev == NearestScan(idx, upto - 1, valid, vectors, inv_cov) IN
         IF prev.err # "none" THEN prev
         ELSE IF idx = upto THEN prev
         ELSE LET d == mahalanobis_distance_of(vectors[idx], vectors[upto], inv_cov) IN
              IF d.err # "none"
              THEN [err |-> d.err, nearest_name |-> None, nearest_distance |-> None]
              ELSE IF prev.nearest_distance = None \/ d.val < prev.nearest_distance[1]
                   THEN [err |-> "none",
                         nearest_name |-> Some(valid[upto].profile_name),
                         nearest_distance |-> Some(d.val)]
                   ELSE prev

\* Mutant: the results are sorted by name as written, not lower-cased.
SortResults_raw(rs) ==
    LET keys  == [i \in 1..Len(rs) |-> rs[i].profile.profile_name]
        order == SortedOrder(keys, Len(rs))
    IN  [i \in 1..Len(rs) |-> rs[order[i]]]

\* sorted(results, key=lambda result: result.profile.profile_name.lower())
SortResults(rs) ==
    LET keys  == [i \in 1..Len(rs) |-> Lower(rs[i].profile.profile_name)]
        order == SortedOrder(keys, Len(rs))
    IN  [i \in 1..Len(rs) |-> rs[order[i]]]

analyze_profiles(ps) ==
    IF ps = <<>> THEN Return(<<>>)
    ELSE
    LET valid_profiles   == ValidOf(ps)
        invalid_profiles == InvalidOf(ps)
        invalid_results ==
            [i \in 1..Len(invalid_profiles) |->
                DistanceResult(invalid_profiles[i], None, None, None,
                               Some(NOT_FSRS6_VALID_PARAMS_MESSAGE))]
    IN
    IF Len(valid_profiles) = 1
    THEN Return(SortResults(
            Append(invalid_results,
                   DistanceResult(valid_profiles[1], None, None, None, None))))
    ELSE IF Len(valid_profiles) > 1
    THEN LET tv == TransformAll(valid_profiles) IN
         IF tv.err # "none" THEN Raise(tv.err)
         ELSE
         LET vectors == tv.val
             ic == get_validated_fsrs6_inverse_covariance(vectors)
         IN
         IF ic.err # "none" THEN Raise(ic.err)
         ELSE
         LET scan == List([idx \in 1..Len(valid_profiles) |->
                         NearestScan(idx, Len(valid_profiles), valid_profiles,
                                     vectors, ic.val)])
         IN
         IF \E idx \in 1..Len(valid_profiles) : scan[idx].err # "none"
         THEN Raise(scan[CHOOSE idx \in 1..Len(valid_profiles) :
                           /\ scan[idx].err # "none"
                           /\ \A k \in 1..(idx - 1) : scan[k].err = "none"].err)
         ELSE Return(SortResults(
                invalid_results \o
                [idx \in 1..Len(valid_profiles) |->
                    DistanceResult(
                        valid_profiles[idx],
                        scan[idx].nearest_name,
                        scan[idx].nearest_distance,
                        recommend_shared_preset(Len(valid_profiles[idx].weights),
                                                scan[idx].nearest_distance),
                        None)]))
    ELSE Return(SortResults(invalid_results))

\* Mutant: the double loop writes matrix[left_idx][right_idx] only.
RECURSIVE FillPairs_onesided(_, _, _, _, _)
FillPairs_onesided(k, start, valid_indexes, vectors, inv_cov) ==
    IF k = 0 THEN Return(start)
    ELSE LET prev == FillPairs_onesided(k - 1, start, valid_indexes, vectors, inv_cov)
             n == Len(valid_indexes)
             left_offset  == ((k - 1) \div n) + 1
             right_offset == ((k - 1) % n) + 1
         IN
         IF prev.err # "none" THEN prev
         ELSE IF right_offset <= left_offset THEN prev
         ELSE LET d == mahalanobis_distance_of(vectors[left_offset],
                                               vectors[right_offset], inv_cov)
                  left_idx  == valid_indexes[left_offset]
                  right_idx == valid_indexes[right_offset]
              IN
              IF d.err # "none" THEN Raise(d.err)
              ELSE Return([prev.val EXCEPT ![left_idx][right_idx] = Some(d.val)])

\* The double loop of pairwise_distance_matrix (lines 221-228), run over its
\* first k iterations (left_offset major, right_offset minor): the matrix
\* filled so far, or the error raised by mahalanobis_distance.
RECURSIVE FillPairs(_, _, _, _, _)
FillPairs(k, start, valid_indexes, vectors, inv_cov) ==
    IF k = 0 THEN Return(start)
    ELSE LET prev == FillPairs(k - 1, start, valid_indexes, vectors, inv_cov)
             n == Len(valid_indexes)
             left_offset  == ((k - 1) \div n) + 1
             right_offset == ((k - 1) % n) + 1
         IN
         IF prev.err # "none" THEN prev
         ELSE IF right_offset <= left_offset THEN prev
         ELSE LET d == mahalanobis_distance_of(vectors[left_offset],
                                               vectors[right_offset], inv_cov)
                  left_idx  == valid_indexes[left_offset]
                  right_idx == valid_indexes[right_offset]
              IN
              IF d.err # "none" THEN Raise(d.err)
              ELSE Return([prev.val EXCEPT ![left_idx][right_idx] = Some(d.val),
                                           ![right_idx][left_idx] = Some(d.val)])

\* sorted(profiles, key=lambda profile: profile.profile_name.lower())
SortProfiles(ps) ==
    LET keys  == [i \in 1..Len(ps) |-> Lower(ps[i].profile_name)]
        order == SortedOrder(keys, Len(ps))
    IN  [i \in 1..Len(ps) |-> ps[order[i]]]

\* [idx for idx, profile in enumerate(sorted_profiles) if valid]
RECURSIVE ValidIndexes(_, _)
ValidIndexes(sorted_profiles, n) ==
    IF n = 0 THEN <<>>
    ELSE IF is_fsrs6_valid_params(sorted_profiles[n].weights)
         THEN Append(ValidIndexes(sorted_profiles, n - 1), n)
         ELSE ValidIndexes(sorted_profiles, n - 1)

\* Mutant: the diagonal is 0.0 for every profile, canonical or not.
DiagonalMatrix_all(n, valid_indexes) ==
    [i \in 1..n |-> [j \in 1..n |-> IF i = j THEN Some(0) ELSE None]]

\* The matrix after lines 204-212: None everywhere, 0.0 on the diagonal of
\* the valid indexes.
DiagonalMatrix(n, valid_indexes) ==
    [i \in 1..n |->
        [j \in 1..n |->
            IF i = j /\ \E k \in 1..Len(valid_indexes) : valid_indexes[k] = i
            THEN Some(0) ELSE None]]

\* Returns <<sorted_profiles, matrix>>.
pairwise_distance_matrix(ps) ==
    LET sorted_profiles == SortProfiles(ps) IN
    IF sorted_profiles = <<>> THEN Return(<< <<>>, <<>> >>)
    ELSE
    LET n == Len(sorted_profiles)
        valid_indexes == ValidIndexes(sorted_profiles, n)
        start == DiagonalMatrix(n, valid_indexes)
    IN
    IF Len(valid_indexes) >= 2
    THEN LET tv == TransformAll([k \in 1..Len(valid_indexes) |->
                                    sorted_profiles[valid_indexes[k]]])
         IN
         IF tv.err # "none" THEN Raise(tv.err)
         ELSE
         LET ic == get_validated_fsrs6_inverse_covariance(tv.val) IN
         IF ic.err # "none" THEN Raise(ic.err)
         ELSE
         LET filled == FillPairs(Len(valid_indexes) * Len(valid_indexes), start,
                                 valid_indexes, tv.val, ic.val)
         IN
         IF filled.err # "none" THEN Raise(filled.err)
         ELSE Return(<<sorted_profiles, filled.val>>)
    ELSE Return(<<sorted_profiles, start>>)

(***************************************************************************)
(* The state machine: the host collects profiles, asks for the analysis of *)
(* the collected list (_show_results_for_profiles) and then for its        *)
(* distance matrix (_show_pairwise_distances); or it calls one library     *)
(* function directly.                                                      *)
(***************************************************************************)
Pending == [err |-> "pending"]

NoCall == [op |-> "none"]

Init ==
    /\ profiles = <<>>
    /\ analysis = Pending
    /\ pairwise = Pending
    /\ call = NoCall

\* _load_profiles appends one profile per preset, in ascending order of the
\* (distinct) preset ids; names may repeat and weights may have any length.
AddProfile ==
    /\ call = NoCall
    /\ analysis = Pending
    /\ pairwise = Pending
    /\ Len(profiles) < MaxProfiles
    /\ \E name \in NameChoices, weights \in WeightChoices :
          profiles' = Append(profiles,
                             FSRSProfile(Len(profiles) + 1, name, weights))
    /\ UNCHANGED <<analysis, pairwise, call>>

Analyze ==
    /\ call = NoCall
    /\ analysis = Pending
    /\ analysis' = analyze_profiles(profiles)
    /\ UNCHANGED <<profiles, pairwise, call>>

Pairwise ==
    /\ call = NoCall
    /\ analysis # Pending
    /\ pairwise = Pending
    /\ pairwise' = pairwise_distance_matrix(profiles)
    /\ UNCHANGED <<profiles, analysis, call>>

Recommend ==
    /\ call = NoCall
    /\ profiles = <<>>
    /\ analysis = Pending
    /\ pairwise = Pending
    /\ \E parameter_count \in CountChoices, nearest_distance \in DistanceChoices :
          call' = [op |-> "recommend_shared_preset",
                   parameter_count |-> parameter_count,
                   nearest_distance |-> nearest_distance,
                   result |-> recommend_shared_preset(parameter_count,
                                                      nearest_distance)]
    /\ UNCHANGED <<profiles, analysis, pairwise>>

Next == AddProfile \/ Analyze \/ Pairwise \/ Recommend

Spec == Init /\ [][Next]_vars

(***************************************************************************)
(* Direct calls of mahalanobis_distance on arbitrary vectors and matrices. *)
(***************************************************************************)
CallMahalanobis ==
    /\ call = NoCall
    /\ \E left \in VectorChoices, right \in VectorChoices,
          inv_covariance \in MatrixChoices :
          call' = [op |-> "mahalanobis_distance",
                   left |-> left,
                   right |-> right,
                   inv_covariance |-> inv_covariance,
                   result |-> mahalanobis_distance(left, right, inv_covariance)]
    /\ UNCHANGED <<profiles, analysis, pairwise>>

NextDistance == CallMahalanobis

SpecDistance == Init /\ [][NextDistance]_vars

(***************************************************************************)
(* Direct calls of _invert_matrix.  The function works on `augmented`,     *)
(* built from copies of the rows (list(row) + ident), so the caller's      *)
(* matrix is after the call what it was before.                            *)
(***************************************************************************)
CallInvert ==
    /\ call = NoCall
    /\ \E matrix \in MatrixChoices :
          call' = [op |-> "_invert_matrix",
                   matrix |-> matrix,
                   matrix_after |-> matrix,
                   result |-> _invert_matrix(matrix)]
    /\ UNCHANGED <<profiles, analysis, pairwise>>

NextInvert == CallInvert

SpecInvert == Init /\ [][NextInvert]_vars

(***************************************************************************)
(* Direct calls of covariance_matrix.                                      *)
(***************************************************************************)
CallCovariance ==
    /\ call = NoCall
    /\ \E rows \in RowsChoices, regularization \in RegularizationChoices :
          call' = [op |-> "covariance_matrix",
                   rows |-> rows,
                   regularization |-> regularization,
                   result |-> covariance_matrix(rows, regularization)]
    /\ UNCHANGED <<profiles, analysis, pairwise>>

NextCovariance == CallCovariance

SpecCovariance == Init /\ [][NextCovariance]_vars

(***************************************************************************)
(* Direct calls of inverse_covariance_for_vectors.  The caller may write   *)
(* into the matrix it got, and call the function again afterwards; the     *)
(* module-level reference matrix is part of the state (`reference`).       *)
(***************************************************************************)
CallInverseCovarianceForVectors ==
    /\ call = NoCall
    /\ \E rows \in CanonicalRowsChoices, regularization \in RegularizationChoices :
          call' = [op |-> "inverse_covariance_for_vectors",
                   stage |-> "returned",
                   rows |-> rows,
                   regularization |-> regularization,
                   reference |-> FSRS6_RECENCY_INV_COVARIANCE_21,
                   result |-> inverse_covariance_for_vectors(
                                  rows, regularization,
                                  FSRS6_RECENCY_INV_COVARIANCE_21)]
    /\ UNCHANGED <<profiles, analysis, pairwise>>

\* The caller's inv_cov[i][j] = 7.0 on the returned matrix: a write into a row
\* object reaches every list that holds that row.
MutateReturned ==
    /\ call.op = "inverse_covariance_for_vectors"
    /\ call.stage = "returned"
    /\ call.result.err = "none"
    /\ \E i \in 1..Len(call.result.val) :
          \E j \in 1..Len(call.result.val[i]) :
             /\ i \in {1, Len(call.result.val)}
             /\ j \in {1, 2}
             /\ call' = [call EXCEPT
                   !.stage = "mutated",
                   !.result.val[i][j] = 7,
                   !.reference = IF i \in call.result.aliases
                                 THEN [call.reference EXCEPT ![i][j] = 7]
                                 ELSE call.reference]
    /\ UNCHANGED <<profiles, analysis, pairwise>>

\* A later call with the same arguments.
CallInverseCovarianceAgain ==
    /\ call.op = "inverse_covariance_for_vectors"
    /\ call.stage = "mutated"
    /\ call' = [op |-> "inverse_covariance_for_vectors",
                stage |-> "called again",
                rows |-> call.rows,
                regularization |-> call.regularization,
                reference |-> call.reference,
                written |-> call.result.val,
                result |-> inverse_covariance_for_vectors(
                               call.rows, call.regularization, call.reference)]
    /\ UNCHANGED <<profiles, analysis, pairwise>>

NextInverseCovariance ==
    \/ CallInverseCovarianceForVectors
    \/ MutateReturned
    \/ CallInverseCovarianceAgain

SpecInverseCovariance == Init /\ [][NextInverseCovariance]_vars

(***************************************************************************)
(* Direct calls of transform_params_for_distance.                          *)
(***************************************************************************)
CallTransform ==
    /\ call = NoCall
    /\ \E weights \in TransformWeightsChoices,
          log_first_count \in LogFirstCountChoices :
          call' = [op |-> "transform_params_for_distance",
                   weights |-> weights,
                   log_first_count |-> log_first_count,
                   result |-> transform_params_for_distance(weights, log_first_count)]
    /\ UNCHANGED <<profiles, analysis, pairwise>>

NextTransform == CallTransform

SpecTransform == Init /\ [][NextTransform]_vars

(***************************************************************************)
(* Direct calls of extract_fsrs_weights.                                   *)
(***************************************************************************)
CallExtract ==
    /\ call = NoCall
    /\ \E config \in ConfigChoices :
          call' = [op |-> "extract_fsrs_weights",
                   config |-> config,
                   result |-> extract_fsrs_weights(config)]
    /\ UNCHANGED <<profiles, analysis, pairwise>>

NextExtract == CallExtract

SpecExtract == Init /\ [][NextExtract]_vars

(***************************************************************************)
(* Direct calls of similar_items_below_threshold, with the row of one of   *)
(* the listed items (self_index is an index of the row).                   *)
(***************************************************************************)
CallSimilarItems ==
    /\ call = NoCall
    /\ \E n \in 1..MaxItems :
          \E names \in [1..n -> NameChoices],
             distances_row \in [1..n -> RowCellChoices],
             self_index \in 0..(n - 1),
             threshold \in ThresholdChoices :
             call' = [op |-> "similar_items_below_threshold",
                      names |-> names,
                      distances_row |-> distances_row,
                      self_index |-> self_index,
                      threshold |-> threshold,
                      result |-> similar_items_below_threshold(
                                     names, distances_row, self_index, threshold)]
    /\ UNCHANGED <<profiles, analysis, pairwise>>

NextSimilarItems == CallSimilarItems

SpecSimilarItems == Init /\ [][NextSimilarItems]_vars

(***************************************************************************)
(* addon.py: _load_computed_deck_profiles.  The function is a sequence of  *)
(* steps separated by its calls of the progress callback and of the        *)
(* backend; `call` holds its local variables, the step it is at (pc), and  *)
(* the log of the calls it has made.                                       *)
(***************************************************************************)
ProgressEvent(done, total, deck_name, answer) ==
    [kind |-> "progress", done |-> done, total |-> total,
     deck_name |-> deck_name, answer |-> answer]

ComputeEvent(deck_name, outcome) ==
    [kind |-> "compute", deck_name |-> deck_name, outcome |-> outcome]

\* Mutant: a deck whose computation failed is listed but not counted.
Classify_failure_uncounted(load, entry, outcome) ==
    IF outcome.raised
    THEN [load EXCEPT !.failed_decks = Append(@, entry.deck_name)]
    ELSE IF outcome.fsrs_items <= 0
    THEN [load EXCEPT !.no_data_decks = Append(@, entry.deck_name),
                      !.processed = @ + 1]
    ELSE IF ~is_fsrs6_valid_params(outcome.params)
    THEN [load EXCEPT !.invalid_param_decks = Append(@, entry.deck_name),
                      !.processed = @ + 1]
    ELSE [load EXCEPT !.profiles = Append(@, FSRSProfile(entry.deck_id, entry.deck_name,
                                                         outcome.params)),
                      !.processed = @ + 1]

\* Lines 307-322: the deck goes to one of the four lists, and is counted.
Classify(load, entry, outcome) ==
    IF outcome.raised
    THEN [load EXCEPT !.failed_decks = Append(@, entry.deck_name),
                      !.processed = @ + 1]
    ELSE IF outcome.fsrs_items <= 0
    THEN [load EXCEPT !.no_data_decks = Append(@, entry.deck_name),
                      !.processed = @ + 1]
    ELSE IF ~is_fsrs6_valid_params(outcome.params)
    THEN [load EXCEPT !.invalid_param_decks = Append(@, entry.deck_name),
                      !.processed = @ + 1]
    ELSE [load EXCEPT !.profiles = Append(@, FSRSProfile(entry.deck_id, entry.deck_name,
                                                         outcome.params)),
                      !.processed = @ + 1]

\* return profiles, no_data_decks, invalid_param_decks, failed_decks, cancelled
Returning(load, cancelled) ==
    [load EXCEPT !.pc = "returned", !.cancelled = cancelled]

\* Lines 275-283: the entries are selected and the locals initialised.
LoadStart ==
    /\ call = NoCall
    /\ \E selected_entries \in SelectedEntriesChoices, has_callback \in BOOLEAN :
          call' = [op |-> "_load_computed_deck_profiles",
                   pc |-> "initial progress",
                   has_callback |-> has_callback,
                   selected_entries |-> selected_entries,
                   position |-> 1,
                   profiles |-> <<>>,
                   no_data_decks |-> <<>>,
                   invalid_param_decks |-> <<>>,
                   failed_decks |-> <<>>,
                   total |-> Len(selected_entries),
                   processed |-> 0,
                   cancelled |-> FALSE,
                   log |-> <<>>]
    /\ UNCHANGED <<profiles, analysis, pairwise>>

\* The step a loop iteration starts with: the next deck, or the end.
LoopStep(load) ==
    IF load.position <= Len(load.selected_entries) THEN "deck progress"
                                                   ELSE "final progress"

\* Lines 285-286: progress_callback(0, total, None).
InitialProgress ==
    /\ call.op = "_load_computed_deck_profiles"
    /\ call.pc = "initial progress"
    /\ IF call.has_callback
       THEN \E answer \in BOOLEAN :
               LET logged == [call EXCEPT !.log =
                                 Append(@, ProgressEvent(0, call.total, None, answer))]
               IN  call' = IF answer THEN [logged EXCEPT !.pc = LoopStep(logged)]
                                     ELSE Returning(logged, TRUE)
       ELSE call' = [call EXCEPT !.pc = LoopStep(call)]
    /\ UNCHANGED <<profiles, analysis, pairwise>>

\* Mutant: the answer of the callback before a deck is not looked at.
DeckProgress_answer_ignored ==
    /\ call.op = "_load_computed_deck_profiles"
    /\ call.pc = "deck progress"
    /\ IF call.has_callback
       THEN \E answer \in BOOLEAN :
               call' = [call EXCEPT
                   !.pc = "compute",
                   !.log = Append(@, ProgressEvent(call.processed, call.total,
                              Some(call.selected_entries[call.position].deck_name),
                              answer))]
       ELSE call' = [call EXCEPT !.pc = "compute"]
    /\ UNCHANGED <<profiles, analysis, pairwise>>

\* Lines 289-290: progress_callback(processed, total, deck_name).
DeckProgress ==
    /\ call.op = "_load_computed_deck_profiles"
    /\ call.pc = "deck progress"
    /\ IF call.has_callback
       THEN \E answer \in BOOLEAN :
               LET logged == [call EXCEPT !.log =
                                 Append(@, ProgressEvent(call.processed, call.total,
                                     Some(call.selected_entries[call.position].deck_name),
                                     answer))]
               IN  call' = IF answer THEN [logged EXCEPT !.pc = "compute"]
                                     ELSE Returning(logged, TRUE)
       ELSE call' = [call EXCEPT !.pc = "compute"]
    /\ UNCHANGED <<profiles, analysis, pairwise>>

\* Lines 292-322: the backend computes the parameters of the deck (or
\* fails), the deck is classified, and the loop goes on. The calls of lines
\* 292-299 are outside the try: an exception of theirs leaves the function
\* before the backend is called.
ComputeDeck ==
    /\ call.op = "_load_computed_deck_profiles"
    /\ call.pc = "compute"
    /\ \/ call' = [call EXCEPT !.pc = "raised"]
       \/ \E outcome \in ComputeOutcomeChoices :
             LET entry == call.selected_entries[call.position]
                 logged == [call EXCEPT !.log =
                               Append(@, ComputeEvent(entry.deck_name, outcome))]
                 classified == Classify(logged, entry, outcome)
                 advanced == [classified EXCEPT !.position = @ + 1]
             IN  call' = [advanced EXCEPT !.pc = LoopStep(advanced)]
    /\ UNCHANGED <<profiles, analysis, pairwise>>

\* Lines 324-326: progress_callback(processed, total, None), and the return.
FinalProgress ==
    /\ call.op = "_load_computed_deck_profiles"
    /\ call.pc = "final progress"
    /\ IF call.has_callback
       THEN \E answer \in BOOLEAN :
               call' = Returning(
                           [call EXCEPT !.log =
                               Append(@, ProgressEvent(call.processed, call.total,
                                                       None, answer))],
                           ~answer)
       ELSE call' = Returning(call, FALSE)
    /\ UNCHANGED <<profiles, analysis, pairwise>>

NextLoad ==
    \/ LoadStart
    \/ InitialProgress
    \/ DeckProgress
    \/ ComputeDeck
    \/ FinalProgress

SpecLoad == Init /\ [][NextLoad]_vars

(***************************************************************************)
(* _show_deck_computed_results, after the loader has returned (addon.py    *)
(* lines 497-528), and _show_results_for_profiles, which it ends with.     *)
(* The profiles are those the loader returns: each has FSRS6_RECENCY_DIM   *)
(* weights and the id of its deck.  The loader returns them in ascending   *)
(* order of lower-cased name; every order is taken here.                   *)
(***************************************************************************)
CanonicalWeightChoices == { w \in WeightChoices : is_fsrs6_valid_params(w) }

\* The id of the deck whose profile is at the given position: distinct ids,
\* in descending order.
DeckIdAt(position) == MaxProfiles + 1 - position

\* The text "-".
Dash == [text |-> "-", items |-> <<>>]

\* ", ".join(similar_items) if similar_items else "-"
SimilarText(similar_items) ==
    IF similar_items = <<>> THEN Dash
                            ELSE [text |-> "joined", items |-> similar_items]

\* Mutant: self_index is passed one too high.
SimilarById_self_included(ordered, matrix) ==
    LET labels == List([i \in 1..Len(ordered) |-> ordered[i].profile_name])
        LastAt(id) == CHOOSE i \in 1..Len(ordered) :
                         /\ ordered[i].profile_id = id
                         /\ \A j \in (i + 1)..Len(ordered) : ordered[j].profile_id # id
    IN  [id \in { ordered[i].profile_id : i \in 1..Len(ordered) } |->
            SimilarText(similar_items_below_threshold(
                labels, matrix[LastAt(id)], LastAt(id),
                FSRS6_RECENCY_MAHALANOBIS_SHARED_PRESET_THRESHOLD))]

\* Lines 512-521: similar_by_id, filled in the order of `ordered`, so that
\* of two profiles with the same id the later one stays.  idx of the code
\* is the position minus one.
SimilarById(ordered, matrix) ==
    LET labels == List([i \in 1..Len(ordered) |-> ordered[i].profile_name])
        LastAt(id) == CHOOSE i \in 1..Len(ordered) :
                         /\ ordered[i].profile_id = id
                         /\ \A j \in (i + 1)..Len(ordered) : ordered[j].profile_id # id
    IN  [id \in { ordered[i].profile_id : i \in 1..Len(ordered) } |->
            SimilarText(similar_items_below_threshold(
                labels, matrix[LastAt(id)], LastAt(id) - 1,
                FSRS6_RECENCY_MAHALANOBIS_SHARED_PRESET_THRESHOLD))]

\* Lines 405-427: the cells of the table row of one result, with
\* similar_profiles_by_id given.
TableRow(result, similar_profiles_by_id) ==
    IF result.status_message # None
    THEN [name     |-> result.profile.profile_name,
          similar  |-> Dash,
          distance |-> [text |-> result.status_message[1], digits |-> 0],
          share    |-> "-"]
    ELSE [name     |-> result.profile.profile_name,
          similar  |-> IF result.profile.profile_id \in DOMAIN similar_profiles_by_id
                       THEN similar_profiles_by_id[result.profile.profile_id]
                       ELSE Dash,
          distance |-> IF result.nearest_distance = None
                       THEN [text |-> "-", digits |-> 0]
                       ELSE [text |-> "number",
                             digits |-> result.nearest_distance[1] * 100],
          share    |-> IF result.should_share_preset = None THEN "-"
                       ELSE IF result.should_share_preset[1] THEN "Yes" ELSE "No"]

\* profiles.append(FSRSProfile(profile_id=deck_id, profile_name=deck_name,
\* weights=params)), for a deck whose params passed is_fsrs6_valid_params.
CollectComputedProfile ==
    /\ call = NoCall
    /\ Len(profiles) < MaxProfiles
    /\ \E name \in NameChoices, weights \in CanonicalWeightChoices :
          profiles' = Append(profiles,
                             FSRSProfile(DeckIdAt(Len(profiles) + 1), name, weights))
    /\ UNCHANGED <<analysis, pairwise, call>>

\* Lines 497-528 and 381-427: a warning when there is no profile; otherwise
\* the matrix, similar_by_id, the analysis and the table.  An exception of
\* pairwise_distance_matrix or analyze_profiles is not caught.
ShowDeckComputedResults ==
    /\ call = NoCall
    /\ \E distances \in { pairwise_distance_matrix(profiles) },
          results \in { analyze_profiles(profiles) } :
          LET shown == [op |-> "_show_deck_computed_results", profiles |-> profiles] IN
          IF profiles = <<>>
          THEN call' = shown @@ [shown |-> "warning"]
          ELSE IF distances.err # "none"
          THEN call' = shown @@ [shown |-> distances.err]
          ELSE IF results.err # "none"
          THEN call' = shown @@ [shown |-> results.err]
          ELSE \E ordered \in { distances.val[1] }, matrix \in { distances.val[2] } :
                  \E similar_by_id \in { SimilarById(ordered, matrix) } :
                     call' = shown @@
                         [shown |-> "table",
                          ordered |-> ordered,
                          matrix |-> matrix,
                          similar_by_id |-> similar_by_id,
                          results |-> results.val,
                          rows |-> List([i \in 1..Len(results.val) |->
                                           TableRow(results.val[i], similar_by_id)])]
    /\ UNCHANGED <<profiles, analysis, pairwise>>

NextDeckResults == CollectComputedProfile \/ ShowDeckComputedResults

SpecDeckResults == Init /\ [][NextDeckResults]_vars

(***************************************************************************)
(* Properties of analyze_profiles.                                         *)
(***************************************************************************)
Returned(outcome) == outcome # Pending /\ outcome.err = "none"

Canonical(p) == Len(p.weights) = FSRS6_RECENCY_DIM

CanonicalCount(ps) == Cardinality({i \in 1..Len(ps) : Canonical(ps[i])})

Occurrences(seq, x) == Cardinality({i \in 1..Len(seq) : seq[i] = x})

KeyOf(p) == Lower(p.profile_name)

\* The profiles of seq are in non-decreasing order of lower-cased name.
SortedByKey(seq) ==
    \A i, j \in 1..Len(seq) : i < j => ~StrLess(KeyOf(seq[j]), KeyOf(seq[i]))

ResultProfiles == [i \in 1..Len(analysis.val) |-> analysis.val[i].profile]

\* C1: when analyze_profiles returns, its output holds exactly one result per
\* input profile (the same multiset of profiles), in non-decreasing order of
\* lower-cased profile name; for the empty input it is the empty list.
C1_OneResultPerProfileSorted ==
    Returned(analysis) =>
        /\ Len(analysis.val) = Len(profiles)
        /\ \A i \in 1..Len(profiles) :
              Occurrences(ResultProfiles, profiles[i]) = Occurrences(profiles, profiles[i])
        /\ SortedByKey(ResultProfiles)
        /\ (profiles = <<>> => analysis.val = <<>>)

\* Three profiles, canonical and not, whose input order is not the output order.
C1_Witness ==
    /\ Returned(analysis)
    /\ Len(profiles) = 3
    /\ CanonicalCount(profiles) = 2
    /\ ~SortedByKey(profiles)
    /\ \E i, j \in 1..3 : /\ profiles[i].profile_name # profiles[j].profile_name
                           /\ KeyOf(profiles[i]) = KeyOf(profiles[j])

\* C2: a result carries the status message "Not FSRS6 valid params" if and
\* only if its profile's weights length is not 21, and such a result has no
\* nearest name, no nearest distance and no recommendation, however many
\* canonical profiles the batch holds.
C2_StatusIffNotCanonical ==
    Returned(analysis) =>
        \A i \in 1..Len(analysis.val) :
            LET r == analysis.val[i] IN
            /\ (r.status_message = Some(NOT_FSRS6_VALID_PARAMS_MESSAGE))
                   <=> (Len(r.profile.weights) # 21)
            /\ (r.status_message = None) <=> (Len(r.profile.weights) = 21)
            /\ (r.status_message # None =>
                   /\ r.nearest_profile_name = None
                   /\ r.nearest_distance = None
                   /\ r.should_share_preset = None)

\* A non-canonical profile analysed together with two canonical ones.
C2_Witness ==
    /\ Returned(analysis)
    /\ CanonicalCount(profiles) = 2
    /\ \E i \in 1..Len(analysis.val) :
          /\ Len(analysis.val[i].profile.weights) = 20
          /\ analysis.val[i].status_message = Some(NOT_FSRS6_VALID_PARAMS_MESSAGE)

\* C3: the result of a canonical profile has no nearest name, no nearest
\* distance and no recommendation exactly when it is the only canonical
\* profile of the input, and never a status message; with two or more
\* canonical profiles every canonical result has a nearest name and a
\* nearest distance.
C3_LoneCanonicalHasNoNeighbour ==
    Returned(analysis) =>
        \A i \in 1..Len(analysis.val) :
            LET r == analysis.val[i] IN
            Len(r.profile.weights) = 21 =>
                /\ r.status_message = None
                /\ (/\ r.nearest_profile_name = None
                    /\ r.nearest_distance = None
                    /\ r.should_share_preset = None) <=> (CanonicalCount(profiles) = 1)
                /\ (CanonicalCount(profiles) >= 2 =>
                       /\ r.nearest_profile_name # None
                       /\ r.nearest_distance # None)

\* One canonical profile next to a non-canonical one: neither has a neighbour.
C3_Witness ==
    /\ Returned(analysis)
    /\ Len(profiles) = 2
    /\ CanonicalCount(profiles) = 1
    /\ \A i \in 1..2 : analysis.val[i].nearest_distance = None
    /\ \E i \in 1..2 : analysis.val[i].status_message = None

\* The Mahalanobis distance, on transformed vectors and with the reference
\* matrix, between two canonical profiles.
ProfileDistance(p, q) ==
    mahalanobis_distance_of(
        transform_params_for_distance(p.weights, LOG_FIRST_PARAM_COUNT).val,
        transform_params_for_distance(q.weights, LOG_FIRST_PARAM_COUNT).val,
        FSRS6_RECENCY_INV_COVARIANCE_21).val

\* The positions of the input list that hold a canonical profile.
CanonicalPositions == {i \in 1..Len(profiles) : Canonical(profiles[i])}

\* C4: with two or more canonical profiles, the nearest_distance of each
\* canonical profile is the minimum of its Mahalanobis distance (on
\* transformed vectors) to the canonical profiles at the other positions of
\* the input, and nearest_profile_name names a profile attaining that minimum.
C4_NearestIsMinimumOverOthers ==
    (Returned(analysis) /\ Cardinality(CanonicalPositions) >= 2) =>
        \A k \in CanonicalPositions :
            \E i \in 1..Len(analysis.val) :
                LET r == analysis.val[i]
                    others == CanonicalPositions \ {k}
                IN
                /\ r.profile = profiles[k]
                /\ r.nearest_distance # None
                /\ r.nearest_profile_name # None
                /\ \A j \in others :
                      r.nearest_distance[1] <= ProfileDistance(profiles[k], profiles[j])
                /\ \E j \in others :
                      /\ ProfileDistance(profiles[k], profiles[j]) = r.nearest_distance[1]
                      /\ profiles[j].profile_name = r.nearest_profile_name[1]

\* Three canonical profiles at three different distances of each other and a
\* non-canonical one; the nearest of the first is not its successor.
C4_Witness ==
    /\ Returned(analysis)
    /\ Cardinality(CanonicalPositions) = 3
    /\ \E a, b, c \in CanonicalPositions :
          /\ a < b /\ b < c
          /\ ProfileDistance(profiles[a], profiles[c]) < ProfileDistance(profiles[a], profiles[b])
          /\ ProfileDistance(profiles[a], profiles[b]) < ProfileDistance(profiles[b], profiles[c])
          /\ \E i \in 1..Len(analysis.val) :
                /\ analysis.val[i].profile = profiles[a]
                /\ analysis.val[i].nearest_profile_name = Some(profiles[c].profile_name)

\* C5: recommend_shared_preset is None when there is no nearest distance or
\* the parameter count is not 21, TRUE when the distance is strictly below
\* the threshold and FALSE when it is at or above it; and every result of
\* analyze_profiles has should_share_preset equal to the function applied to
\* its own weights length and its own nearest distance.
C5_RecommendationRule ==
    /\ call.op = "recommend_shared_preset" =>
          /\ (call.nearest_distance = None \/ call.parameter_count # 21)
                 => call.result = None
          /\ (call.nearest_distance # None /\ call.parameter_count = 21) =>
                 /\ call.nearest_distance[1] < 380 => call.result = Some(TRUE)
                 /\ call.nearest_distance[1] >= 380 => call.result = Some(FALSE)
    /\ Returned(analysis) =>
          \A i \in 1..Len(analysis.val) :
              LET r == analysis.val[i] IN
              /\ r.should_share_preset =
                     recommend_shared_preset(Len(r.profile.weights), r.nearest_distance)
              /\ (r.nearest_distance # None /\ Len(r.profile.weights) = 21) =>
                     r.should_share_preset = Some(r.nearest_distance[1] < 380)
              /\ (r.nearest_distance = None \/ Len(r.profile.weights) # 21) =>
                     r.should_share_preset = None

\* A canonical profile whose nearest neighbour is exactly at the threshold.
C5_Witness ==
    /\ Returned(analysis)
    /\ \E i \in 1..Len(analysis.val) :
          /\ analysis.val[i].nearest_distance = Some(380)
          /\ analysis.val[i].should_share_preset = Some(FALSE)

(***************************************************************************)
(* Properties of pairwise_distance_matrix.                                 *)
(***************************************************************************)
Ordered == pairwise.val[1]

Matrix == pairwise.val[2]

\* C6: the matrix is symmetric (both cells None or both the same number) and
\* its diagonal is 0.0 at every profile of canonical dimension.
C6_MatrixSymmetricZeroDiagonal ==
    Returned(pairwise) =>
        /\ \A i, j \in 1..Len(Matrix) : Matrix[i][j] = Matrix[j][i]
        /\ \A i \in 1..Len(Ordered) : Canonical(Ordered[i]) => Matrix[i][i] = Some(0)

\* Three canonical profiles at pairwise different, non-zero distances.
C6_Witness ==
    /\ Returned(pairwise)
    /\ Len(Matrix) = 3
    /\ Matrix[1][2] # None /\ Matrix[1][3] # None /\ Matrix[2][3] # None
    /\ Matrix[1][2] # Matrix[1][3]
    /\ Matrix[1][2] # Matrix[2][3]
    /\ Matrix[1][3] # Matrix[2][3]
    /\ Matrix[2][1] # Some(0)

\* C7: pairwise_distance_matrix returns the input profiles sorted by
\* lower-cased name and an N x N matrix indexed in that order whose cell
\* [i][j] is set if and only if both ordered[i] and ordered[j] are canonical
\* (the diagonal included).
C7_MatrixShapeAndDefinedness ==
    Returned(pairwise) =>
        /\ Len(Ordered) = Len(profiles)
        /\ \A i \in 1..Len(profiles) :
              Occurrences(Ordered, profiles[i]) = Occurrences(profiles, profiles[i])
        /\ SortedByKey(Ordered)
        /\ Len(Matrix) = Len(profiles)
        /\ \A i \in 1..Len(Matrix) : Len(Matrix[i]) = Len(profiles)
        /\ \A i, j \in 1..Len(Matrix) :
              (Matrix[i][j] # None) <=> (Canonical(Ordered[i]) /\ Canonical(Ordered[j]))

\* A lone canonical profile between two non-canonical ones, out of order in
\* the input: only its diagonal cell is set.
C7_Witness ==
    /\ Returned(pairwise)
    /\ Len(profiles) = 3
    /\ ~SortedByKey(profiles)
    /\ CanonicalCount(profiles) = 1
    /\ Canonical(Ordered[2])
    /\ Matrix[2][2] = Some(0)
    /\ Matrix[1][1] = None

(***************************************************************************)
(* Properties of mahalanobis_distance.                                     *)
(***************************************************************************)
\* m is a square matrix of dimension dim.
SquareOfDim(m, dim) == Len(m) = dim /\ \A r \in 1..Len(m) : Len(m[r]) = dim

\* (a - b)^T m (a - b), for a, b of length dim and m square of dimension dim.
QuadraticForm(a, b, m) ==
    LET dim == Len(a)
        terms == { <<i, j>> : i \in 1..dim, j \in 1..dim }
        RECURSIVE Total(_)
        Total(S) == IF S = {} THEN 0
                    ELSE LET t == CHOOSE x \in S : TRUE
                         IN  (a[t[1]] - b[t[1]]) * m[t[1]][t[2]] * (a[t[2]] - b[t[2]])
                             + Total(S \ {t})
    IN  Total(terms)

\* C8 (as claimed): mahalanobis_distance raises ValueError whenever left and
\* right differ in length, and whenever inv_covariance is not a square matrix
\* of dimension len(left); it never returns a distance for such inputs.
C8_ShapeMismatchRaisesValueError ==
    call.op = "mahalanobis_distance" =>
        ((\/ Len(call.left) # Len(call.right)
          \/ ~SquareOfDim(call.inv_covariance, Len(call.left)))
            => call.result.err = "ValueError")

\* C9: for equal-length vectors a, b and a matrix M of matching dimension,
\* the distance of a to itself is 0, the distance of a to b is the distance
\* of b to a, and the result is never negative, also when M is not positive
\* semi-definite.
C9_ZeroSelfSymmetricNonNegative ==
    (/\ call.op = "mahalanobis_distance"
     /\ Len(call.left) = Len(call.right)
     /\ SquareOfDim(call.inv_covariance, Len(call.left))) =>
        /\ call.result.err = "none"
        /\ call.result.val >= 0
        /\ call.left = call.right => call.result.val = 0
        /\ mahalanobis_distance(call.left, call.left, call.inv_covariance) = Return(0)
        /\ mahalanobis_distance(call.right, call.left, call.inv_covariance) = call.result

\* Two different vectors and an asymmetric matrix on which the quadratic form
\* is negative: the clamp makes the distance 0.
C9_Witness ==
    /\ call.op = "mahalanobis_distance"
    /\ Len(call.left) = 2
    /\ Len(call.right) = 2
    /\ SquareOfDim(call.inv_covariance, 2)
    /\ call.inv_covariance[1][2] # call.inv_covariance[2][1]
    /\ QuadraticForm(call.left, call.right, call.inv_covariance) < 0
    /\ call.result = Return(0)

(***************************************************************************)
(* Properties of _invert_matrix.                                           *)
(***************************************************************************)
\* C10 (as claimed): _invert_matrix raises the invalid-input ValueError for
\* every input that is empty or not square, returns a matrix only for
\* non-empty square inputs, and leaves the rows of its input as they were.
C10_InvertRejectsNonSquare ==
    call.op = "_invert_matrix" =>
        LET square == SquareOfDim(call.matrix, Len(call.matrix))
            empty  == call.matrix = <<>>
        IN
        /\ (empty \/ ~square) => call.result.err = "ValueError"
        /\ call.result.err = "none" => (square /\ ~empty)
        /\ call.matrix_after = call.matrix

(***************************************************************************)
(* Properties of covariance_matrix and inverse_covariance_for_vectors.     *)
(***************************************************************************)
\* The rows are a non-empty list of vectors of one length dim > 0.
WellFormed(rows) ==
    /\ rows # <<>>
    /\ Len(rows[1]) > 0
    /\ \A r \in 1..Len(rows) : Len(rows[r]) = Len(rows[1])

\* The unbiased sample covariance of the coordinates i and j of n >= 2 rows,
\* in closed form: (n * sum(x_i x_j) - sum(x_i) * sum(x_j)) / (n * (n - 1)).
UnbiasedCovariance(rows, i, j) ==
    LET n == Len(rows) IN
    Rat(n * SumSeq([r \in 1..n |-> rows[r][i] * rows[r][j]], n)
            - SumSeq([r \in 1..n |-> rows[r][i]], n)
              * SumSeq([r \in 1..n |-> rows[r][j]], n),
        n * (n - 1))

\* C11: covariance_matrix of exactly one non-empty vector of length d is the
\* d x d matrix with 1 + regularization on the diagonal and 0 elsewhere,
\* whatever the vector holds; with two or more vectors it is the unbiased
\* sample covariance with the regularization added to every diagonal entry and
\* to no other entry.
C11_RegularizedDiagonal ==
    (call.op = "covariance_matrix" /\ WellFormed(call.rows)) =>
        LET dim == Len(call.rows[1])
            reg == call.regularization
            cov == call.result.val
        IN
        /\ call.result.err = "none"
        /\ Len(cov) = dim
        /\ \A i \in 1..dim : Len(cov[i]) = dim
        /\ Len(call.rows) = 1 =>
              \A i, j \in 1..dim :
                  cov[i][j] = IF i = j THEN RAdd(FromInt(1), reg) ELSE FromInt(0)
        /\ Len(call.rows) >= 2 =>
              \A i, j \in 1..dim :
                  cov[i][j] = IF i = j
                              THEN RAdd(UnbiasedCovariance(call.rows, i, j), reg)
                              ELSE UnbiasedCovariance(call.rows, i, j)

\* Three vectors of length 2 with a non-zero covariance between their
\* coordinates, and the regularization 0.5.
C11_Witness ==
    /\ call.op = "covariance_matrix"
    /\ call.rows = << <<0, 3>>, <<3, 0>>, <<0, 0>> >>
    /\ call.regularization = <<1, 2>>
    /\ call.result = Return(<< << <<7, 2>>, <<-3, 2>> >>,
                              << <<-3, 2>>, <<7, 2>> >> >>)

\* The product of two square matrices of rationals.
RMatMul(a, b) ==
    LET n == Len(a) IN
    [i \in 1..n |-> [j \in 1..n |->
        RSumSeq([k \in 1..n |-> RMul(a[i][k], b[k][j])], n)]]

\* C12: inverse_covariance_for_vectors fails with ValueError on an empty list
\* and on vectors of differing lengths; for vectors of dimension 21 it returns
\* the 21 x 21 reference matrix, whatever the vectors hold and however many
\* they are; for another dimension d it returns what inverting the
\* regularized sample covariance gives, a d x d matrix whose product with that
\* covariance is the identity, and always does so when d > 0 and the
\* regularization is positive; and a write into the returned matrix leaves
\* the reference as it was, so that a later call returns the reference again.
C12_ReferenceOrSampleInverse ==
    call.op = "inverse_covariance_for_vectors" =>
        LET rows == call.rows
            ragged == \E r \in 1..Len(rows) : Len(rows[r]) # Len(rows[1])
        IN
        /\ call.reference = FSRS6_RECENCY_INV_COVARIANCE_21
        /\ (rows = <<>> \/ ragged) => call.result.err = "ValueError"
        /\ (rows # <<>> /\ ~ragged /\ Len(rows[1]) = 21 /\ call.stage # "mutated") =>
              call.result.err = "none" /\ call.result.val = FSRS6_RECENCY_INV_COVARIANCE_21
        /\ (rows # <<>> /\ ~ragged /\ Len(rows[1]) # 21 /\ call.stage # "mutated") =>
              LET cov == covariance_matrix(rows, call.regularization) IN
              /\ (Len(rows[1]) > 0 /\ call.regularization[1] > 0) =>
                     call.result.err = "none"
              /\ call.result.err = "none" =>
                     /\ cov.err = "none"
                     /\ SquareOfDim(call.result.val, Len(rows[1]))
                     /\ RMatMul(call.result.val, cov.val) = _identity(Len(rows[1]))
              /\ call.result.err # "none" =>
                     /\ call.result.err = "ValueError"
                     /\ (cov.err # "none" \/ _invert_matrix_of(cov.val).err = "ValueError")

\* After a write into the matrix returned for canonical vectors, a later call
\* has returned the reference matrix, while the first result holds the write.
C12_Witness ==
    /\ call.op = "inverse_covariance_for_vectors"
    /\ call.stage = "called again"
    /\ Len(call.rows) = 3
    /\ call.rows[1] # call.rows[2]
    /\ Len(call.rows[1]) = 21
    /\ call.result.err = "none"
    /\ call.result.val = FSRS6_RECENCY_INV_COVARIANCE_21
    /\ call.written[21][2] = 7

(***************************************************************************)
(* Properties of transform_params_for_distance.                            *)
(***************************************************************************)
\* The positions (from 1) of the entries at the indices (from 0) below
\* min(log_first_count, len(weights)).
LeadingPositions(weights, log_first_count) ==
    { i \in 1..Len(weights) : i - 1 < log_first_count }

\* C13: transform_params_for_distance raises ValueError exactly when one of
\* the entries at the indices below min(log_first_count, length) is <= 0,
\* whatever the later entries are; otherwise it returns a vector of the length
\* of its input whose entries at those indices are the natural logs of the
\* input's and whose other entries are the input's.
C13_LogsLeadingEntriesOnly ==
    call.op = "transform_params_for_distance" =>
        LET weights == call.weights
            leading == LeadingPositions(weights, call.log_first_count)
        IN
        /\ call.result.err \in {"none", "ValueError"}
        /\ (call.result.err = "ValueError") <=> (\E i \in leading : weights[i] <= 0)
        /\ call.result.err = "none" =>
              /\ Len(call.result.val) = Len(weights)
              /\ \A i \in 1..Len(weights) :
                    call.result.val[i] = IF i \in leading THEN Ln(weights[i])
                                                          ELSE weights[i]

\* Five weights with the default count: the four leading ones are logged, the
\* fifth, which is not positive, is returned as it is.
C13_Witness ==
    /\ call.op = "transform_params_for_distance"
    /\ call.weights = <<272, 50, 272, 50, -200>>
    /\ call.log_first_count = 4
    /\ call.result = Return(<<100, -69, 100, -69, -200>>)

(***************************************************************************)
(* Properties of extract_fsrs_weights.                                     *)
(***************************************************************************)
\* The entry converts to a float.
Convertible(entry) ==
    \/ entry.type = "int"
    \/ entry.type = "str" /\ entry.v = 1

\* The value is a non-string sequence, not empty, of convertible entries.
Qualifies(value) ==
    /\ value.kind = "list"
    /\ value.items # <<>>
    /\ \A i \in 1..Len(value.items) : Convertible(value.items[i])

\* The places a candidate is read from, in the order of precedence.
PrecedencePaths ==
    << <<"fsrsParams6">>, <<"fsrs_params6">>, <<"fsrsParams5">>, <<"fsrs_params5">>,
       <<"fsrsParams">>, <<"fsrs_params">>, <<"fsrsWeights">>, <<"fsrs_weights">>,
       <<"fsrs", "weights">>, <<"fsrs", "params">>, <<"fsrs", "parameters">> >>

\* The value of the record at a path, NoneValue where there is none.
ValueAt(config, path) ==
    IF config.kind # "mapping" \/ path[1] \notin DOMAIN config.fields THEN NoneValue
    ELSE IF Len(path) = 1 THEN config.fields[path[1]]
    ELSE LET inner == config.fields[path[1]] IN
         IF inner.kind = "mapping" /\ path[2] \in DOMAIN inner.fields
         THEN inner.fields[path[2]]
         ELSE NoneValue

\* The float conversion of a list that qualifies: ints as floats, "2.5" as 2.5.
Converted(value) ==
    [i \in 1..Len(value.items) |->
        IF value.items[i].type = "int" THEN value.items[i].v * 100 ELSE 250]

\* What the claim says extract_fsrs_weights returns.
ClaimedExtract(config) ==
    LET qualifying == { k \in 1..Len(PrecedencePaths) :
                          Qualifies(ValueAt(config, PrecedencePaths[k])) }
    IN  IF qualifying = {} THEN Return(None)
        ELSE LET k == CHOOSE q \in qualifying : \A r \in qualifying : q <= r
             IN  Return(Some(Converted(ValueAt(config, PrecedencePaths[k]))))

\* C14 (as claimed): extract_fsrs_weights returns the float conversion of the
\* first candidate, in the order of precedence, that is a non-string sequence,
\* is not empty and has only entries that convert to float; a candidate with
\* an entry that does not convert is passed over as a whole; the top-level
\* "weights" is never read; and the result is None when no candidate
\* qualifies.
C14_FirstQualifyingCandidate ==
    call.op = "extract_fsrs_weights" =>
        call.result = ClaimedExtract(call.config)

\* The part of C14 that holds: the same, for the records in which no
\* candidate read before the first qualifying one holds an int beyond the
\* range of a float.
ExtractAsClaimedWithoutOverflow ==
    (call.op = "extract_fsrs_weights" /\ call.result.err # "OverflowError") =>
        call.result = ClaimedExtract(call.config)

(***************************************************************************)
(* Properties of similar_items_below_threshold.                            *)
(***************************************************************************)
\* The positions (from 1) of the cells that are not the item's own, hold a
\* value, and hold one strictly below the threshold.
SimilarPositions ==
    { i \in 1..Len(call.distances_row) :
        /\ i - 1 # call.self_index
        /\ call.distances_row[i] # None
        /\ call.distances_row[i][1] < call.threshold }

\* The bijections from 1..Cardinality(S) to S.
Orderings(S) ==
    { f \in [1..Cardinality(S) -> S] : \A i, j \in DOMAIN f : i # j => f[i] # f[j] }

\* C15: the result of similar_items_below_threshold holds one entry, the
\* name with the distance to four decimals, for each index of the row that is
\* not self_index and whose value is not None and strictly below the
\* threshold, and for no other; the entries are in ascending order of
\* distance, those of equal distance in order of lower-cased name.
C15_SimilarItemsFilteredAndSorted ==
    call.op = "similar_items_below_threshold" =>
        \E at \in Orderings(SimilarPositions) :
            /\ Len(call.result) = Cardinality(SimilarPositions)
            /\ \A k \in DOMAIN at :
                  /\ call.result[k].name = call.names[at[k]]
                  /\ call.result[k].digits = call.distances_row[at[k]][1] * 100
            /\ \A k, l \in DOMAIN at :
                  k < l =>
                      LET dk == call.distances_row[at[k]][1]
                          dl == call.distances_row[at[l]][1]
                      IN  \/ dk < dl
                          \/ /\ dk = dl
                             /\ ~StrLess(Lower(call.names[at[l]]), Lower(call.names[at[k]]))

\* The item's own cell and two cells of equal distance below the threshold
\* whose names are not in order in the input.
C15_Witness ==
    /\ call.op = "similar_items_below_threshold"
    /\ call.threshold = 380
    /\ call.self_index = 0
    /\ call.names = << <<66>>, <<66, 97>>, <<98>> >>
    /\ call.distances_row = << Some(0), Some(250), Some(250) >>
    /\ call.result = << FormatItem(<<98>>, 250), FormatItem(<<66, 97>>, 250) >>

(***************************************************************************)
(* Further properties of analyze_profiles and pairwise_distance_matrix.    *)
(***************************************************************************)
\* The canonical positions other than k whose profile is at the least
\* distance of profiles[k].
NearestPositions(k) ==
    { j \in CanonicalPositions \ {k} :
        \A l \in CanonicalPositions \ {k} :
            ProfileDistance(profiles[k], profiles[j])
                <= ProfileDistance(profiles[k], profiles[l]) }

\* C16: when several other canonical profiles are at the same least distance
\* of a profile, the nearest neighbour reported for it is the one that comes
\* first in the input list, whatever the names are.
C16_FirstSeenWinsTies ==
    (Returned(analysis) /\ Cardinality(CanonicalPositions) >= 2) =>
        \A k \in CanonicalPositions :
            \A i \in 1..Len(analysis.val) :
                analysis.val[i].profile = profiles[k] =>
                    LET first == CHOOSE j \in NearestPositions(k) :
                                     \A l \in NearestPositions(k) : j <= l
                    IN  analysis.val[i].nearest_profile_name
                            = Some(profiles[first].profile_name)

\* Two profiles at the same least distance of a third, the one that comes
\* first in the input having the name that sorts last: it is the one reported.
C16_Witness ==
    /\ Returned(analysis)
    /\ \E k \in CanonicalPositions :
          \E j1, j2 \in NearestPositions(k) :
             /\ j1 < j2
             /\ \A l \in NearestPositions(k) : j1 <= l
             /\ profiles[j1].weights # profiles[j2].weights
             /\ StrLess(KeyOf(profiles[j2]), KeyOf(profiles[j1]))
             /\ \E i \in 1..Len(analysis.val) :
                   /\ analysis.val[i].profile = profiles[k]
                   /\ analysis.val[i].nearest_profile_name
                          = Some(profiles[j1].profile_name)

\* The valid profiles in the order pairwise_distance_matrix reads them.
SortedValid == ValidOf(SortProfiles(profiles))

\* Every vector of the list has the canonical dimension, the strict selection
\* accepts the list, and mahalanobis_distance returns a distance for every
\* pair of its vectors with the matrix selected.
AllCanonicalAndComparable(vectors) ==
    LET ic == get_validated_fsrs6_inverse_covariance(vectors) IN
    /\ \A i \in 1..Len(vectors) : Len(vectors[i]) = 21
    /\ ic.err = "none"
    /\ SquareOfDim(ic.val, 21)
    /\ \A i, j \in 1..Len(vectors) :
          mahalanobis_distance_of(vectors[i], vectors[j], ic.val).err = "none"

\* C17: whatever mix of canonical and other profiles is given, the vectors
\* that analyze_profiles and pairwise_distance_matrix pass to the strict
\* inverse-covariance selection and to mahalanobis_distance all have the
\* dimension 21 of the reference matrix; neither operation fails with
\* InvalidParams or with a dimension mismatch, the only failure being the one
\* of the log transform.
C17_OnlyCanonicalVectorsCompared ==
    /\ analysis # Pending =>
          LET tv == TransformAll(ValidOf(profiles)) IN
          /\ analysis.err \in {"none", "ValueError"}
          /\ (Len(ValidOf(profiles)) >= 2 /\ tv.err = "none") =>
                 /\ AllCanonicalAndComparable(tv.val)
                 /\ analysis.err = "none"
          /\ analysis.err = "ValueError" =>
                 (Len(ValidOf(profiles)) >= 2 /\ tv.err = "ValueError")
    /\ pairwise # Pending =>
          LET tv == TransformAll(SortedValid) IN
          /\ pairwise.err \in {"none", "ValueError"}
          /\ (Len(SortedValid) >= 2 /\ tv.err = "none") =>
                 /\ AllCanonicalAndComparable(tv.val)
                 /\ pairwise.err = "none"
          /\ pairwise.err = "ValueError" =>
                 (Len(SortedValid) >= 2 /\ tv.err = "ValueError")

\* Two canonical profiles and one of 20 weights between them: both
\* operations have returned, with a distance for the canonical pair.
C17_Witness ==
    /\ Returned(analysis)
    /\ Returned(pairwise)
    /\ Len(profiles) = 3
    /\ Len(profiles[2].weights) = 20
    /\ CanonicalCount(profiles) = 2
    /\ \E i \in 1..3 : analysis.val[i].nearest_distance # None
    /\ \E i, j \in 1..3 : i # j /\ Matrix[i][j] # None

\* The profile is canonical and one of its first four weights is <= 0.
NonPositiveLeading(p) ==
    /\ Canonical(p)
    /\ \E k \in 1..4 : p.weights[k] <= 0

\* The input holds two or more canonical profiles, one of them with a
\* non-positive value among its first four weights.
FailingBatch ==
    /\ CanonicalCount(profiles) >= 2
    /\ \E i \in 1..Len(profiles) : NonPositiveLeading(profiles[i])

\* C20: analyze_profiles raises the ValueError of the log transform, and so
\* returns no result at all, exactly when the input holds at least two
\* canonical profiles and one of them has a value <= 0 among its first four
\* weights; with no or one canonical profile it returns, whatever the
\* weights; and pairwise_distance_matrix fails in exactly the same cases.
C20_FailsIffTwoCanonicalAndNonPositive ==
    /\ analysis # Pending =>
          /\ analysis.err \in {"none", "ValueError"}
          /\ (analysis.err = "ValueError") <=> FailingBatch
    /\ pairwise # Pending =>
          /\ pairwise.err \in {"none", "ValueError"}
          /\ (pairwise.err = "ValueError") <=> FailingBatch

\* A profile with leading zeros, a second canonical profile and one of 20
\* weights: both operations have raised.
C20_Witness ==
    /\ Len(profiles) = 3
    /\ CanonicalCount(profiles) = 2
    /\ \E i \in 1..3 : NonPositiveLeading(profiles[i])
    /\ \E i \in 1..3 : Canonical(profiles[i]) /\ ~NonPositiveLeading(profiles[i])
    /\ analysis = Raise("ValueError")
    /\ pairwise = Raise("ValueError")

(***************************************************************************)
(* Properties of _load_computed_deck_profiles.                             *)
(***************************************************************************)
Loading == call.op = "_load_computed_deck_profiles"

\* The positions of the log that hold a call of the callback / of the backend.
ProgressCalls == { k \in 1..Len(call.log) : call.log[k].kind = "progress" }

ComputeCalls == { k \in 1..Len(call.log) : call.log[k].kind = "compute" }

\* The names of the decks in the four lists, one after the other.
ClassifiedNames ==
    [i \in 1..Len(call.profiles) |-> call.profiles[i].profile_name]
        \o call.no_data_decks \o call.invalid_param_decks \o call.failed_decks

\* The names of the decks the backend has been called for, in order.
ComputedNames ==
    LET computes == SelectSeq(call.log, LAMBDA e : e.kind = "compute")
    IN  [i \in 1..Len(computes) |-> computes[i].deck_name]

\* C18: the callback is called once before the first deck (with no deck
\* name), once before the backend call of each deck (with its name) and once
\* after the last deck; the backend is called for a deck only after the
\* callback, called for that deck, has answered True; an answer False is the
\* last call the function makes, it returns with cancelled = True, and the
\* four lists it returns hold exactly the decks computed before.
C18_CancellationBetweenDecks ==
    (Loading /\ call.has_callback) =>
        LET log == call.log
            n == Len(log)
        IN
        /\ call.pc # "initial progress" =>
              /\ n >= 1
              /\ log[1] = ProgressEvent(0, call.total, None, log[1].answer)
        /\ \A k \in ComputeCalls :
              /\ k > 1
              /\ log[k - 1].kind = "progress"
              /\ log[k - 1].deck_name = Some(log[k].deck_name)
              /\ log[k - 1].answer
        /\ \A k \in ProgressCalls :
              /\ (k > 1 /\ log[k].deck_name # None) =>
                    /\ log[k].deck_name
                           = Some(call.selected_entries[
                                 Cardinality({ c \in ComputeCalls : c < k }) + 1].deck_name)
                    /\ k < n => log[k + 1].kind = "compute"
              /\ (k > 1 /\ log[k].deck_name = None) =>
                    /\ k = n
                    /\ Len(ComputedNames) = call.total
              /\ ~log[k].answer =>
                    /\ k = n
                    /\ call.pc = "returned"
                    /\ call.cancelled
        /\ call.pc = "returned" =>
              /\ log[n].kind = "progress"
              /\ call.cancelled = ~log[n].answer
              /\ ~call.cancelled =>
                    /\ n = 2 * call.total + 2
                    /\ log[n].deck_name = None
              /\ Len(ClassifiedNames) = Len(ComputedNames)
              /\ { ClassifiedNames[i] : i \in 1..Len(ClassifiedNames) }
                     = { ComputedNames[i] : i \in 1..Len(ComputedNames) }
              /\ \A i \in 1..Len(ComputedNames) :
                     ComputedNames[i] = call.selected_entries[i].deck_name

\* The first of two decks has been computed, and the callback called for the
\* second has answered False: the function has returned, cancelled, with the
\* first deck alone in its lists.
C18_Witness ==
    /\ Loading
    /\ call.has_callback
    /\ call.pc = "returned"
    /\ call.cancelled
    /\ call.total = 2
    /\ Len(call.log) = 4
    /\ call.log[3].kind = "compute"
    /\ call.log[4].deck_name = Some(call.selected_entries[2].deck_name)
    /\ ClassifiedNames = <<call.selected_entries[1].deck_name>>

\* C19: at every call of the callback and at the return, done is the sum of
\* the lengths of the four lists, every deck processed so far is in exactly
\* one of them, and 0 <= done <= total; done never decreases from one call to
\* the next; a return with cancelled = False has done = total; and every
\* profile returned has 21 weights and comes from a backend call that
\* reported more than 0 items.
C19_DoneCountsClassifiedDecks ==
    Loading =>
        LET log == call.log IN
        /\ call.processed = Len(call.profiles) + Len(call.no_data_decks)
                              + Len(call.invalid_param_decks) + Len(call.failed_decks)
        /\ call.processed = Len(ComputedNames)
        /\ 0 <= call.processed /\ call.processed <= call.total
        /\ \A i \in 1..call.processed :
              Occurrences(ClassifiedNames, call.selected_entries[i].deck_name) = 1
        /\ \A k \in ProgressCalls :
              /\ log[k].done = Cardinality({ c \in ComputeCalls : c < k })
              /\ log[k].total = call.total
              /\ 0 <= log[k].done /\ log[k].done <= log[k].total
              /\ log[k].done <= call.processed
              /\ \A l \in ProgressCalls : k < l => log[k].done <= log[l].done
        /\ (call.pc = "returned" /\ ~call.cancelled) => call.processed = call.total
        /\ \A i \in 1..Len(call.profiles) :
              /\ Len(call.profiles[i].weights) = 21
              /\ \E c \in ComputeCalls :
                    /\ log[c].deck_name = call.profiles[i].profile_name
                    /\ ~log[c].outcome.raised
                    /\ log[c].outcome.fsrs_items > 0
                    /\ log[c].outcome.params = call.profiles[i].weights

\* Two decks, one computed to a profile and one whose computation failed:
\* the function has returned, not cancelled, with done = total = 2.
C19_Witness ==
    /\ Loading
    /\ call.has_callback
    /\ call.pc = "returned"
    /\ ~call.cancelled
    /\ call.total = 2
    /\ call.processed = 2
    /\ Len(call.profiles) = 1
    /\ Len(call.failed_decks) = 1
    /\ call.log[Len(call.log)] = ProgressEvent(2, 2, None, TRUE)

(***************************************************************************)
(* Properties of the two views of _show_deck_computed_results.             *)
(***************************************************************************)
TableShown == call.op = "_show_deck_computed_results" /\ call.shown = "table"

\* The numbers of the row at the given position of the matrix, outside the
\* diagonal.
OffDiagonal(position) ==
    { call.matrix[position][j][1] :
        j \in { k \in 1..Len(call.matrix[position]) :
                  k # position /\ call.matrix[position][k] # None } }

\* The positions of the results and of the table rows that belong to the
\* profile with the given id.
ResultsOf(id) == { i \in 1..Len(call.results) : call.results[i].profile.profile_id = id }

\* C21: for profiles of canonical dimension with distinct ids, the least
\* number outside the diagonal of a profile's row of the matrix is the
\* nearest_distance analyze_profiles gives the profile (and there is no such
\* number exactly when nearest_distance is None); the profile's similar
\* items are non-empty exactly when should_share_preset is True, and are
\* shown as "-" exactly when it is False or None.
C21_SimilarItemsAgreeWithAnalysis ==
    (/\ TableShown
     /\ \A i \in 1..Len(call.profiles) : Canonical(call.profiles[i])
     /\ \A i, j \in 1..Len(call.profiles) :
           i # j => call.profiles[i].profile_id # call.profiles[j].profile_id)
    =>
    \A position \in 1..Len(call.ordered) :
        LET id == call.ordered[position].profile_id
            similar == call.similar_by_id[id]
        IN
        /\ Cardinality(ResultsOf(id)) = 1
        /\ \A i \in ResultsOf(id) :
              LET result == call.results[i] IN
              /\ result.profile = call.ordered[position]
              /\ OffDiagonal(position) = {} <=> result.nearest_distance = None
              /\ result.nearest_distance # None =>
                    /\ result.nearest_distance[1] \in OffDiagonal(position)
                    /\ \A d \in OffDiagonal(position) : result.nearest_distance[1] <= d
              /\ similar.items # <<>> <=> result.should_share_preset = Some(TRUE)
              /\ similar = Dash <=> result.should_share_preset \in {Some(FALSE), None}
              /\ call.rows[i].similar = similar
              /\ call.rows[i].similar = Dash <=> call.rows[i].share \in {"No", "-"}

\* Three profiles given in an order that is not the order of their names:
\* one has a neighbour at 0.97 and one exactly at the threshold, lists the
\* first alone and is recommended to share; another has its nearest
\* neighbour exactly at the threshold, is not recommended, and shows "-".
C21_Witness ==
    /\ TableShown
    /\ Len(call.profiles) = 3
    /\ call.ordered # call.profiles
    /\ \E i, j \in 1..3 :
          /\ call.results[i].nearest_distance = Some(97)
          /\ Len(call.rows[i].similar.items) = 1
          /\ call.rows[i].share = "Yes"
          /\ \E position \in 1..3 :
                /\ call.ordered[position] = call.results[i].profile
                /\ OffDiagonal(position)
                       = {97, FSRS6_RECENCY_MAHALANOBIS_SHARED_PRESET_THRESHOLD}
          /\ call.results[j].nearest_distance
                 = Some(FSRS6_RECENCY_MAHALANOBIS_SHARED_PRESET_THRESHOLD)
          /\ call.rows[j].similar = Dash
          /\ call.rows[j].share = "No"

====
